---- MODULE Spec2Model ----
(***************************************************************************)
(* A model of the watcher scheduler (app/services/watcher_service.py) and  *)
(* of the request handlers that drive it (app/routes/watchers.py).         *)
(*                                                                         *)
(* The scheduler keeps one interval job per enabled target in an           *)
(* APScheduler job store, a set of in-flight manual checks and a map of    *)
(* learned render timeouts.  Executions of run_check run on the worker     *)
(* pool of the scheduler; request handlers run on the threads of the web   *)
(* server.  Every step of the model is one atomic piece of that code.      *)
(***************************************************************************)
EXTENDS Integers, Sequences, FiniteSets, TLC

VARIABLES
    started,                    \* on_startup has run (scheduler.start + load_and_schedule)
    watchers,                   \* the watchers table: id -> row
    logs,                       \* the logs table: the set of its rows
    jobs,                       \* the job store of the scheduler: the interval jobs
    manual_checks_in_progress,  \* WatcherScheduler.manual_checks_in_progress
    render_timeouts,            \* WatcherScheduler.render_timeouts: id -> seconds
    queue,                      \* executions submitted to the worker pool and not yet taken
    runs,                       \* executions of run_check running on a worker
    created,                    \* number of executions submitted so far
    clock,                      \* number of datetime.utcnow() readings taken by run_check
    callers,                    \* id -> request threads inside manual_check(id), past its test
    ret,                        \* the last value returned by manual_check
    sent,                       \* send_email calls made by run_check
    render_js,                  \* settings.render_js
    monitor,                    \* an EnhancedMonitor and its call of monitor_url
    cookie_db,                  \* the tables of cookies.db
    time,                       \* the clock of the process and of SQLite
    scroll,                     \* a call of perform_smart_interactions: its scroll loop
    rival                       \* a check that another process runs on the same cookies.db

vars == <<started, watchers, logs, jobs, manual_checks_in_progress, render_timeouts,
          queue, runs, created, clock, callers, ret, sent, render_js, monitor, cookie_db, time, scroll, rival>>

(***************************************************************************)
(* Bounds of the model.                                                    *)
(***************************************************************************)
MaxRuns == 2        \* executions submitted in one behaviour
MaxRetries == 2     \* largest resilience.max_retries of a configuration
MaxChecks == 2      \* calls of monitor_url in one behaviour
MaxHours == 2       \* hours that pass in one behaviour

\* The targets of the model.  Two targets share the scheduler, its worker
\* pool and the database; nothing in the code relates more than two.
Ids == {1, 2}

(***************************************************************************)
(* Program constants.                                                      *)
(***************************************************************************)
MIN_RENDER_SECONDS == 30
MAX_RENDER_SECONDS == 180
render_timeout == 20
render_post_wait_seconds == 3
max_instances == 1

\* NULL in a text column, None in Python.
None == "None"
\* NULL in a DateTime column; the readings of the clock start at 1.
NoTime == 0

\* The forms the create and update requests submit: enabled, interval_minutes
\* (Field(ge=1, le=1440)) and emails, which is the empty string, a string of
\* separators and blanks only, or a string holding one address.
Forms ==
    {[enabled |-> TRUE,  interval_minutes |-> 5, emails |-> "a@x"],
     [enabled |-> FALSE, interval_minutes |-> 5, emails |-> "a@x"],
     [enabled |-> TRUE,  interval_minutes |-> 1, emails |-> ""],
     [enabled |-> TRUE,  interval_minutes |-> 5, emails |-> " , "]}

\* Observed load durations of page.goto in whole seconds, chosen so that
\* 1.3 times a duration is a whole number or lies above the ceiling.
Durations == {10, 100, 150, 178, 200}

StatusEnum == {"unknown", "found", "not_found", "error", "heavy"}

Max(a, b) == IF a >= b THEN a ELSE b
Min(a, b) == IF a <= b THEN a ELSE b

\* Python dicts and tables keyed by id are functions on the keys present.
Put(f, k, v) == [x \in DOMAIN f \cup {k} |-> IF x = k THEN v ELSE f[x]]
Del(f, k) == [x \in DOMAIN f \ {k} |-> f[x]]

(***************************************************************************)
(* The watchers table.                                                     *)
(***************************************************************************)
NewWatcher(form) ==
    [enabled |-> form.enabled, interval_minutes |-> form.interval_minutes,
     emails |-> form.emails,
     last_check_at |-> NoTime, last_status |-> "unknown", last_error |-> None]

(***************************************************************************)
(* The job store of the scheduler: a set of jobs, each with the id it was  *)
(* added under.  Only the interval jobs are kept here; a one-off manual    *)
(* job is due when it is added and goes to the worker pool at once.        *)
(***************************************************************************)
_job_id(watcher_id) == <<"watcher", watcher_id>>

\* add_job as it would be with replace_existing left out of account.
add_job_M(js, job_id, watcher_id, minutes) ==
    js \cup {[id |-> job_id, watcher_id |-> watcher_id, minutes |-> minutes]}

\* scheduler.add_job(run_check, "interval", minutes=..., id=job_id,
\* replace_existing=True, args=[watcher_id], ...): a job stored under the
\* same id is replaced.
add_job(js, job_id, watcher_id, minutes) ==
    {j \in js : j.id # job_id}
        \cup {[id |-> job_id, watcher_id |-> watcher_id, minutes |-> minutes]}

\* scheduler.remove_all_jobs() in the place of scheduler.remove_job(job_id).
remove_job_M(js, watcher_id) == {}

\* scheduler.remove_job raises JobLookupError when no job has the id; the
\* except clause swallows it.
remove_job(js, watcher_id) ==
    {j \in js : j.id # _job_id(watcher_id)}

\* _add_or_update_job without the branch of lines 168-170.
_add_or_update_job_M(js, id, w) ==
    add_job(js, _job_id(id), id, w.interval_minutes)

_add_or_update_job(js, id, w) ==
    IF ~w.enabled
    THEN remove_job(js, id)
    ELSE add_job(js, _job_id(id), id, w.interval_minutes)

reschedule(js, id, w) == _add_or_update_job(js, id, w)

\* The interval jobs that run checks of a target.
JobsOf(id) == {j \in jobs : j.watcher_id = id}

(***************************************************************************)
(* The worker pool.  A submitted execution waits in the queue of the pool  *)
(* until a worker takes it; then run_check runs through "detect" (the page *)
(* is being fetched), "commit" (the check record is about to be committed) *)
(* and "email" (the alert is about to be sent).                            *)
(*                                                                         *)
(* queue[force][id] counts the waiting executions run_check(id, force):    *)
(* those of the interval job of the id (force false) and those of its      *)
(* one-off manual jobs (force true).                                       *)
(***************************************************************************)
NewRun(id, force, now, emails) ==
    [id |-> id, force |-> force, pc |-> "detect",
     now |-> now, emails |-> emails, status |-> "unknown", error |-> None,
     rendered |-> FALSE]

Submit(q, id, force) == [q EXCEPT ![force][id] = @ + 1]
Take(q, id, force) == [q EXCEPT ![force][id] = @ - 1]

\* The executor counts the submitted and not yet finished executions of a job
\* under the id of the job: the interval job of a target is "watcher-<id>".
Instances(id) ==
    queue[FALSE][id] + Cardinality({r \in runs : r.id = id /\ ~r.force})

\* The finally block of run_check.
ClearManual(s, id, force) ==
    IF force /\ id \in s THEN s \ {id} ELSE s

(***************************************************************************)
(* Startup (app/main.py) and the request handlers (app/routes/watchers.py) *)
(***************************************************************************)
RECURSIVE ScheduleAll(_, _, _)
ScheduleAll(js, ws, todo) ==
    IF todo = {}
    THEN js
    ELSE LET id == CHOOSE x \in todo : TRUE
         IN ScheduleAll(_add_or_update_job(js, id, ws[id]), ws, todo \ {id})

load_and_schedule(js, ws) ==
    ScheduleAll(js, ws, {id \in DOMAIN ws : ws[id].enabled})

on_startup ==
    /\ ~started
    /\ started' = TRUE
    /\ jobs' = load_and_schedule(jobs, watchers)
    /\ UNCHANGED <<watchers, logs, manual_checks_in_progress, render_timeouts,
                   queue, runs, created, clock, callers, ret, sent, render_js, monitor, cookie_db, time, scroll, rival>>

\* create_watcher / api_create_watcher
create_watcher(id, form) ==
    /\ started
    /\ id \notin DOMAIN watchers
    /\ watchers' = Put(watchers, id, NewWatcher(form))
    /\ jobs' = reschedule(jobs, id, watchers'[id])
    /\ UNCHANGED <<started, logs, manual_checks_in_progress, render_timeouts,
                   queue, runs, created, clock, callers, ret, sent, render_js, monitor, cookie_db, time, scroll, rival>>

\* update_watcher / api_update_watcher
update_watcher(id, form) ==
    /\ started
    /\ id \in DOMAIN watchers
    /\ watchers' = [watchers EXCEPT ![id] =
                       [@ EXCEPT !.enabled = form.enabled,
                                 !.interval_minutes = form.interval_minutes,
                                 !.emails = form.emails]]
    /\ jobs' = reschedule(jobs, id, watchers'[id])
    /\ UNCHANGED <<started, logs, manual_checks_in_progress, render_timeouts,
                   queue, runs, created, clock, callers, ret, sent, render_js, monitor, cookie_db, time, scroll, rival>>

toggle_watcher(id) ==
    /\ started
    /\ id \in DOMAIN watchers
    /\ watchers' = [watchers EXCEPT ![id] = [@ EXCEPT !.enabled = ~@]]
    /\ jobs' = reschedule(jobs, id, watchers'[id])
    /\ UNCHANGED <<started, logs, manual_checks_in_progress, render_timeouts,
                   queue, runs, created, clock, callers, ret, sent, render_js, monitor, cookie_db, time, scroll, rival>>

\* delete_watcher / api_delete_watcher: the logs of the watcher go with it
\* (cascade="all, delete-orphan").
delete_watcher(id) ==
    /\ started
    /\ id \in DOMAIN watchers
    /\ watchers' = Del(watchers, id)
    /\ logs' = {l \in logs : l.watcher_id # id}
    /\ jobs' = remove_job(jobs, id)
    /\ UNCHANGED <<started, manual_checks_in_progress, render_timeouts,
                   queue, runs, created, clock, callers, ret, sent, render_js, monitor, cookie_db, time, scroll, rival>>

(***************************************************************************)
(* manual_check.  The handlers run_now and api_run_check call it on the    *)
(* threads of the web server, several at a time: the membership test and   *)
(* the add that follows it are two steps of a thread.                      *)
(***************************************************************************)
RECURSIVE SumOver(_, _)
SumOver(f, S) ==
    IF S = {} THEN 0
    ELSE LET x == CHOOSE y \in S : TRUE IN f[x] + SumOver(f, S \ {x})

\* Room for one more execution within the bound of the model.
Room == created + SumOver(callers, Ids) < MaxRuns

\* The test of line 327 with its answer fixed: the id is never found.
AlreadyInProgress_M(s, id) == FALSE

\* Line 327.
AlreadyInProgress(s, id) == id \in s

\* Line 327: the test; lines 328-329 when it succeeds.
manual_check_test(id) ==
    /\ started
    /\ IF AlreadyInProgress(manual_checks_in_progress, id)
       THEN /\ ret' = "False"
            /\ UNCHANGED callers
       ELSE /\ Room
            /\ callers' = [callers EXCEPT ![id] = @ + 1]
            /\ UNCHANGED ret
    /\ UNCHANGED <<started, watchers, logs, jobs, manual_checks_in_progress,
                   render_timeouts, queue, runs, created, clock, sent, render_js, monitor, cookie_db, time, scroll, rival>>

\* Lines 331-345: mark, queue the one-off job with force=True, return True.
manual_check_add(id) ==
    /\ callers[id] > 0
    /\ callers' = [callers EXCEPT ![id] = @ - 1]
    /\ manual_checks_in_progress' = manual_checks_in_progress \cup {id}
    /\ created' = created + 1
    /\ queue' = Submit(queue, id, TRUE)
    /\ ret' = "True"
    /\ UNCHANGED <<started, watchers, logs, jobs, render_timeouts, runs, clock,
                   sent, render_js, monitor, cookie_db, time, scroll, rival>>

(***************************************************************************)
(* The scheduler thread: the interval job of a target comes due.  With     *)
(* max_instances=1 the executor refuses the firing while an execution of   *)
(* the job is submitted or running, and the firing is skipped.             *)
(***************************************************************************)
\* An executor without the instance cap.
Refused_M(id) == FALSE

\* An executor that also refuses while a manual check of the target is marked.
Refused_manual_M(id) ==
    Instances(id) >= max_instances \/ id \in manual_checks_in_progress

\* The executor refuses a firing of the job of id (MaxInstancesReachedError).
Refused(id) == Instances(id) >= max_instances

fire_interval(id) ==
    /\ started
    /\ JobsOf(id) # {}
    /\ IF Refused(id)
       THEN UNCHANGED <<queue, created>>
       ELSE /\ Room
            /\ created' = created + 1
            /\ queue' = Submit(queue, id, FALSE)
    /\ UNCHANGED <<started, watchers, logs, jobs, manual_checks_in_progress,
                   render_timeouts, runs, clock, callers, ret, sent, render_js, monitor, cookie_db, time, scroll, rival>>

\* A worker takes a queued execution later than misfire_grace_time after its
\* run time (30 s for an interval job, MAX_RENDER_SECONDS for a manual job):
\* the workers of the pool were busy all that time with the checks of other
\* targets.  The run is missed and run_check is not called.
misfire(id, force) ==
    /\ queue[force][id] > 0
    /\ queue' = Take(queue, id, force)
    /\ UNCHANGED <<started, watchers, logs, jobs, manual_checks_in_progress,
                   render_timeouts, runs, created, clock, callers, ret, sent,
                   render_js, monitor, cookie_db, time, scroll, rival>>

(***************************************************************************)
(* _detect and fetch_html_js, as functions of what the network returns.    *)
(***************************************************************************)
\* What requests.get gives: an exception, a page with the phrase, one without.
FetchInputs == {"raise", "found", "absent"}

\* The outcomes of fetch_html that a slice of the program draws from.
FoundOrRaise == {"found", "raise"}
AbsentOrRaise == {"absent", "raise"}
FoundOrAbsent == {"found", "absent"}

\* What the browser gives: an exception, a navigation timeout, or a page
\* loaded after d seconds that holds the phrase or not.
RenderInputs ==
    {[goto |-> "raise", d |-> 0, has |-> FALSE],
     [goto |-> "timeout", d |-> MAX_RENDER_SECONDS, has |-> FALSE]}
    \cup {[goto |-> "loaded", d |-> d, has |-> h] : d \in Durations, h \in BOOLEAN}

Clamp(x) == Max(MIN_RENDER_SECONDS, Min(MAX_RENDER_SECONDS, x))

default_render_timeout == Clamp(render_timeout)

\* Line 104: load_duration * 1.3, clamped.
suggested_timeout(load_duration) == Clamp((load_duration * 13) \div 10)

\* Lines 103-109: the seconds to wait after the load.
extra_wait(load_duration, baseline_timeout) ==
    LET baseline == Clamp(baseline_timeout)
        w1 == Max(0, suggested_timeout(load_duration) - load_duration)
        w2 == Max(w1, Max(0, baseline - load_duration))
        min_extra == Max(0, render_post_wait_seconds)
        w3 == Max(w2, min_extra)
    IN Min(w3, Max(0, MAX_RENDER_SECONDS - Min(load_duration, MAX_RENDER_SECONDS)))

\* Lines 136-137: finally: browser.close(), on every way out of the block.
browser_close(res) == [res EXCEPT !.browsers = @ - 1]

\* fetch_html_js without the test of line 100.
fetch_html_js_M(render, baseline_timeout) ==
    browser_close(
    CASE render.goto = "raise" ->
            [outcome |-> "raise", has |-> FALSE, effective_timeout |-> 0, wait |-> 0, browsers |-> 1]
      [] render.goto = "timeout" ->
            [outcome |-> "heavy", has |-> FALSE, effective_timeout |-> 0, wait |-> 0, browsers |-> 1]
      [] OTHER ->
            [outcome |-> "ok", has |-> render.has,
             effective_timeout |-> suggested_timeout(render.d),
             wait |-> extra_wait(render.d, baseline_timeout),
             browsers |-> 1])

\* The outcome of fetch_html_js: RenderTooHeavyError ("heavy"), another
\* exception ("raise"), or the page with its RenderStats and the wait made;
\* the browser launched at line 69 is open in the try block of lines 76-135.
fetch_html_js(render, baseline_timeout) ==
    browser_close(
    CASE render.goto = "raise" ->
            [outcome |-> "raise", has |-> FALSE, effective_timeout |-> 0, wait |-> 0, browsers |-> 1]
      [] render.goto = "timeout" ->
            [outcome |-> "heavy", has |-> FALSE, effective_timeout |-> 0, wait |-> 0, browsers |-> 1]
      [] render.goto = "loaded" /\ render.d >= MAX_RENDER_SECONDS ->
            [outcome |-> "heavy", has |-> FALSE, effective_timeout |-> 0, wait |-> 0, browsers |-> 1]
      [] OTHER ->
            [outcome |-> "ok", has |-> render.has,
             effective_timeout |-> suggested_timeout(render.d),
             wait |-> extra_wait(render.d, baseline_timeout),
             browsers |-> 1])

\* A map that keeps the first timeout learned for a target.
_record_render_timeout_M(rts, id, timeout) ==
    IF id \in DOMAIN rts THEN rts ELSE Put(rts, id, timeout)

_record_render_timeout(rts, id, timeout) == Put(rts, id, timeout)

\* Line 219: self.render_timeouts.get(watcher.id, self.default_render_timeout).
Baseline(rts, id) == IF id \in DOMAIN rts THEN rts[id] ELSE default_render_timeout

\* _detect with the render moved before the test of the fetched page: the
\* browser runs whenever render_js is on.
_detect_M(id, js_on, rts, fetch, render) ==
    IF ~js_on
    THEN [status |-> IF fetch = "raise" THEN "error"
                     ELSE IF fetch = "found" THEN "found" ELSE "not_found",
          error |-> IF fetch = "raise" THEN "exc" ELSE None,
          rts |-> rts, rendered |-> FALSE]
    ELSE LET res == fetch_html_js(render, Baseline(rts, id))
         IN CASE res.outcome = "heavy" ->
                    [status |-> "heavy", error |-> "heavy", rts |-> rts, rendered |-> TRUE]
              [] res.outcome = "raise" \/ fetch = "raise" ->
                    [status |-> "error", error |-> "exc", rts |-> rts, rendered |-> TRUE]
              [] OTHER ->
                    [status |-> IF res.has \/ fetch = "found" THEN "found" ELSE "not_found",
                     error |-> None,
                     rts |-> _record_render_timeout(rts, id, res.effective_timeout),
                     rendered |-> TRUE]

\* _detect with the learned timeout set to the ceiling when the render was
\* too heavy.
_detect_heavy_M(id, js_on, rts, fetch, render) ==
    IF fetch = "raise"
    THEN [status |-> "error", error |-> "exc", rts |-> rts, rendered |-> FALSE]
    ELSE IF fetch = "found"
    THEN [status |-> "found", error |-> None, rts |-> rts, rendered |-> FALSE]
    ELSE IF ~js_on
    THEN [status |-> "not_found", error |-> None, rts |-> rts, rendered |-> FALSE]
    ELSE LET res == fetch_html_js(render, Baseline(rts, id))
         IN CASE res.outcome = "heavy" ->
                    [status |-> "heavy", error |-> "heavy",
                     rts |-> _record_render_timeout(rts, id, MAX_RENDER_SECONDS),
                     rendered |-> TRUE]
              [] res.outcome = "raise" ->
                    [status |-> "error", error |-> "exc", rts |-> rts, rendered |-> TRUE]
              [] OTHER ->
                    [status |-> IF res.has THEN "found" ELSE "not_found",
                     error |-> None,
                     rts |-> _record_render_timeout(rts, id, res.effective_timeout),
                     rendered |-> TRUE]

\* Lines 196-271.  The status, the error message and the render_timeouts
\* map left by _detect, and whether it called fetch_html_js, which launches
\* the browser.
_detect(id, js_on, rts, fetch, render) ==
    IF fetch = "raise"
    THEN [status |-> "error", error |-> "exc", rts |-> rts, rendered |-> FALSE]
    ELSE IF fetch = "found"
    THEN [status |-> "found", error |-> None, rts |-> rts, rendered |-> FALSE]
    ELSE IF ~js_on
    THEN [status |-> "not_found", error |-> None, rts |-> rts, rendered |-> FALSE]
    ELSE LET res == fetch_html_js(render, Baseline(rts, id))
         IN CASE res.outcome = "heavy" ->
                    [status |-> "heavy", error |-> "heavy", rts |-> rts, rendered |-> TRUE]
              [] res.outcome = "raise" ->
                    [status |-> "error", error |-> "exc", rts |-> rts, rendered |-> TRUE]
              [] OTHER ->
                    [status |-> IF res.has THEN "found" ELSE "not_found",
                     error |-> None,
                     rts |-> _record_render_timeout(rts, id, res.effective_timeout),
                     rendered |-> TRUE]

(***************************************************************************)
(* run_check, one step per blocking call it makes.                         *)
(***************************************************************************)
\* The test of line 277 without its force operand.
Skips_M(ws, id, force) ==
    id \notin DOMAIN ws \/ ~ws[id].enabled

\* Line 277: the target is absent, or disabled and the run is not forced.
Skips(ws, id, force) ==
    id \notin DOMAIN ws \/ (~ws[id].enabled /\ ~force)

\* run_check returns or raises: the finally block runs and the worker is free.
Finish(r) ==
    /\ runs' = runs \ {r}
    /\ manual_checks_in_progress' =
           ClearManual(manual_checks_in_progress, r.id, r.force)

\* Lines 273-280: a free worker takes the execution within its grace time and
\* calls run_check, which loads the target and returns at once (through the
\* finally block) or reads the clock and goes on to _detect.
run_check_load(id, force) ==
    /\ queue[force][id] > 0
    /\ queue' = Take(queue, id, force)
    /\ IF Skips(watchers, id, force)
       THEN /\ manual_checks_in_progress' =
                   ClearManual(manual_checks_in_progress, id, force)
            /\ UNCHANGED <<runs, clock>>
       ELSE /\ clock' = clock + 1
            /\ runs' = runs \cup {NewRun(id, force, clock + 1, watchers[id].emails)}
            /\ UNCHANGED manual_checks_in_progress
    /\ UNCHANGED <<started, watchers, logs, jobs, render_timeouts, created,
                   callers, ret, sent, render_js, monitor, cookie_db, time, scroll, rival>>

\* Lines 282-283: _detect returns; the with block ends and closes the session.
run_check_detect(r, fetch, render) ==
    /\ r \in runs
    /\ r.pc = "detect"
    /\ LET res == _detect(r.id, render_js, render_timeouts, fetch, render)
       IN /\ render_timeouts' = res.rts
          /\ runs' = (runs \ {r}) \cup
                {[r EXCEPT !.pc = "commit", !.status = res.status,
                           !.error = res.error, !.rendered = res.rendered]}
    /\ UNCHANGED <<started, watchers, logs, jobs, manual_checks_in_progress,
                   queue, created, clock, callers, ret, sent, render_js, monitor, cookie_db, time, scroll, rival>>

\* Line 285 without the comparison of the status.
should_email_M(status, emails) == emails # ""

\* Line 285.
should_email(status, emails) == status = "found" /\ emails # ""

\* Line 309: the non-blank parts of the comma-separated string.
Recipients(emails) ==
    IF emails \in {"", " , "} THEN {} ELSE {emails}

\* Lines 291-296.
CheckLog(r) ==
    [watcher_id |-> r.id, checked_at |-> r.now, status |-> r.status,
     error_message |-> r.error, email_sent |-> FALSE, email_error |-> None]

\* A commit that keeps only the newest check record of the target.
db_commit_M(ws, ls, r) ==
    [watchers |-> ws,
     logs |-> {l \in ls : l.watcher_id # r.id} \cup {CheckLog(r)}]

\* The tables after db.commit() succeeds at line 299.  The session holds the
\* CheckLog added at line 297 and nothing else: the Watcher instance left the
\* session when the with block of line 275 ended (Session.close() expunges
\* what it holds), so lines 287-289 assign to a detached instance and the
\* commit writes no watchers row.
db_commit(ws, ls, r) ==
    [watchers |-> ws, logs |-> ls \cup {CheckLog(r)}]

\* The handler of StaleDataError without line 302.
on_stale_M(js, id) == js

\* Lines 300-303: the job store after StaleDataError.
on_stale(js, id) == remove_job(js, id)

\* What db.commit() does: succeed, raise StaleDataError, raise something else.
CommitOutcomes == {"ok", "stale", "error"}

\* The commits that do not raise an error of the database.
OkOrStale == {"ok", "stale"}

\* Lines 285-310.
run_check_commit(r, outcome) ==
    /\ r \in runs
    /\ r.pc = "commit"
    /\ CASE outcome = "ok" ->
              /\ watchers' = db_commit(watchers, logs, r).watchers
              /\ logs' = db_commit(watchers, logs, r).logs
              /\ UNCHANGED jobs
              /\ IF should_email(r.status, r.emails) /\ Recipients(r.emails) # {}
                 THEN /\ runs' = (runs \ {r}) \cup {[r EXCEPT !.pc = "email"]}
                      /\ UNCHANGED manual_checks_in_progress
                 ELSE Finish(r)
         [] outcome = "stale" ->
              /\ jobs' = on_stale(jobs, r.id)
              /\ Finish(r)
              /\ UNCHANGED <<watchers, logs>>
         [] OTHER ->
              /\ Finish(r)
              /\ UNCHANGED <<watchers, logs, jobs>>
    /\ UNCHANGED <<started, render_timeouts, queue, created, clock, callers, ret,
                   sent, render_js, monitor, cookie_db, time, scroll, rival>>

\* Lines 311-320: send_email returns or raises; the exception is logged.
run_check_email(r, delivered) ==
    /\ r \in runs
    /\ r.pc = "email"
    /\ sent' = sent \cup {[watcher_id |-> r.id, now |-> r.now, delivered |-> delivered]}
    /\ Finish(r)
    /\ UNCHANGED <<started, watchers, logs, jobs, render_timeouts, queue, created,
                   clock, callers, ret, render_js, monitor, cookie_db, time, scroll, rival>>

(***************************************************************************)
(* EnhancedMonitor.monitor_url (app/services/enhanced_monitor.py) under a   *)
(* MonitoringConfig (app/core/stealth_config.py).  One step per iteration   *)
(* of the attempt loop.  Delays are whole seconds, content is its length.   *)
(***************************************************************************)
\* A member of the Enum RetryStrategy, and a Python str: values of different
\* types, which == and != never find equal.
RetryStrategy(v) == [type |-> "RetryStrategy", value |-> v]
Str(v) == [type |-> "str", value |-> v]

RetryStrategies ==
    {RetryStrategy(v) : v \in {"none", "exponential_backoff", "linear", "size_based"}}

\* The strategy of the defaults and one other.
TwoStrategies == {RetryStrategy(v) : v \in {"none", "exponential_backoff"}}

\* size_threshold_percentage = 0.5, in hundredths.
size_threshold_percentage == 50

\* The ResilienceConfig objects under which the attempt loop is examined:
\* the dataclass defaults, with max_retries, the strategy, backoff_base and
\* the three switches varied as parse_config_data allows.
ResilienceConfigs ==
    [max_retries : 0..MaxRetries,
     retry_strategy : TwoStrategies,
     backoff_base : {1, 2},
     backoff_max : {5},
     fuzzy_match_threshold : {85},
     ocr_enabled : BOOLEAN,
     wayback_enabled : BOOLEAN,
     fuzzy_match_enabled : BOOLEAN]

\* The ResilienceConfig objects under which one attempt's detection chain is
\* examined: every combination of the switches, two thresholds, no retry.
DetectionConfigs ==
    [max_retries : {0},
     retry_strategy : {RetryStrategy("exponential_backoff")},
     backoff_base : {1},
     backoff_max : {5},
     fuzzy_match_threshold : {50, 85},
     ocr_enabled : BOOLEAN,
     wayback_enabled : BOOLEAN,
     fuzzy_match_enabled : BOOLEAN]

\* ResilienceConfig(): the defaults of the dataclass.
DefaultResilience ==
    [max_retries |-> 3,
     retry_strategy |-> RetryStrategy("exponential_backoff"),
     backoff_base |-> 1,
     backoff_max |-> 5,
     fuzzy_match_threshold |-> 85,
     ocr_enabled |-> TRUE,
     wayback_enabled |-> TRUE,
     fuzzy_match_enabled |-> TRUE]

\* Lines 340-350.
calculate_exponential_backoff(resilience, attempt) ==
    IF resilience.retry_strategy # Str("exponential_backoff")
    THEN 0
    ELSE Min(resilience.backoff_base * 2^(attempt - 1), resilience.backoff_max)

\* The comparison with its operands exchanged: a retry when the content
\* has grown.
should_retry_based_on_size_M(current_size, previous_size) ==
    IF previous_size = 0
    THEN FALSE
    ELSE 100 * previous_size < size_threshold_percentage * current_size

\* Lines 427-442, on content lengths; previous_content empty or None is 0.
should_retry_based_on_size(current_size, previous_size) ==
    IF previous_size = 0
    THEN FALSE
    ELSE 100 * current_size < size_threshold_percentage * previous_size

(***************************************************************************)
(* Text.  A Python str is a sequence of characters; the operators below   *)
(* are str.lower, the in operator, str.split and Levenshtein.distance.     *)
(***************************************************************************)
\* The upper-case letters of the model's texts with their lower-case forms.
Lowercase ==
    "A" :> "a" @@ "B" :> "b" @@ "C" :> "c" @@ "K" :> "k" @@ "O" :> "o"

\* str.lower().
lower(text) ==
    [i \in 1..Len(text) |->
        IF text[i] \in DOMAIN Lowercase THEN Lowercase[text[i]] ELSE text[i]]

\* needle in hay.
Contains(needle, hay) ==
    \E i \in 0..(Len(hay) - Len(needle)) :
        \A j \in 1..Len(needle) : hay[i + j] = needle[j]

RECURSIVE SplitFrom(_, _, _)
\* The words of text from position i on, word being the word read so far.
SplitFrom(text, i, word) ==
    IF i > Len(text)
    THEN IF word = <<>> THEN <<>> ELSE <<word>>
    ELSE IF text[i] = " "
    THEN IF word = <<>>
         THEN SplitFrom(text, i + 1, <<>>)
         ELSE <<word>> \o SplitFrom(text, i + 1, <<>>)
    ELSE SplitFrom(text, i + 1, Append(word, text[i]))

\* str.split(): the words between runs of whitespace.
split(text) == SplitFrom(text, 1, <<>>)

Min3(a, b, c) == Min(a, Min(b, c))

RECURSIVE NextRow(_, _, _, _)
\* The row of the edit-distance table for one more character ca of a, from
\* the previous row, filled from the left; cur holds its first entries.
NextRow(prev, cur, ca, b) ==
    IF Len(cur) = Len(prev)
    THEN cur
    ELSE LET j == Len(cur)
             cost == IF ca = b[j] THEN 0 ELSE 1
         IN NextRow(prev,
                    Append(cur, Min3(prev[j + 1] + 1, cur[j] + 1, prev[j] + cost)),
                    ca, b)

RECURSIVE Rows(_, _, _, _)
Rows(a, b, i, prev) ==
    IF i > Len(a)
    THEN prev
    ELSE Rows(a, b, i + 1, NextRow(prev, <<i>>, a[i], b))

\* Levenshtein.distance(a, b): insertions, deletions and substitutions.
distance(a, b) ==
    Rows(a, b, 1, [j \in 1..(Len(b) + 1) |-> j - 1])[Len(b) + 1]

\* Lines 412-420 for one pair of words, in integers: 100 * (1 - d / m) >= t
\* is 100 * (m - d) >= t * m for m > 0, and similarity is 0 for m = 0.
Similar(word, target_word, threshold) ==
    LET d == distance(lower(word), lower(target_word))
        max_len == Max(Len(word), Len(target_word))
    IN IF max_len > 0
       THEN 100 * (max_len - d) >= threshold * max_len
       ELSE 0 >= threshold

\* A matcher that compares the whole content with the whole phrase.
fuzzy_match_content_M(resilience, content, target_phrase) ==
    /\ resilience.fuzzy_match_enabled
    /\ Similar(content, target_phrase, resilience.fuzzy_match_threshold)

\* Lines 402-425.
fuzzy_match_content(resilience, content, target_phrase) ==
    /\ resilience.fuzzy_match_enabled
    /\ \E i \in 1..Len(split(content)), j \in 1..Len(split(target_phrase)) :
          Similar(split(content)[i], split(target_phrase)[j],
                  resilience.fuzzy_match_threshold)

(***************************************************************************)
(* The cookie database of EnhancedMonitor (cookies.db): the tables cookies *)
(* and sessions, and the clock their expiry columns are compared with.     *)
(* Time is counted in whole hours.                                         *)
(***************************************************************************)
cookie_expiration_days == 30
\* session_ttl_seconds = 3600.
session_ttl_hours == 1

\* datetime.isoformat() of the hour t: the date, the separator "T" and the
\* time of day.
isoformat(t) == <<t \div 24, "T", t % 24>>

\* CURRENT_TIMESTAMP of SQLite at the hour t: the date, a blank and the time
\* of day, in UTC.
CURRENT_TIMESTAMP(t) == <<t \div 24, " ", t % 24>>

\* datetime.now(): the local time of the process.
datetime_now(tm) == tm.utc + tm.offset

\* The byte of a separator.
Ord(c) == IF c = " " THEN 32 ELSE 84

\* a < b for two TEXT values of SQLite: byte by byte.  Dates and times of
\* day have a fixed width, so their digits compare as the numbers do.
TextLess(a, b) ==
    \/ a[1] < b[1]
    \/ /\ a[1] = b[1]
       /\ \/ Ord(a[2]) < Ord(b[2])
          \/ Ord(a[2]) = Ord(b[2]) /\ a[3] < b[3]

\* json.dumps and json.loads of a cookie list.
dumps(cookies) == [json |-> cookies]
loads(text) == text.json

\* The file ensure_cookie_storage creates: two empty tables.
ensure_cookie_storage == [cookies |-> {}, sessions |-> {}]

\* Lines 144-152: DELETE ... WHERE expires_at <= CURRENT_TIMESTAMP.
cleanup_expired_sessions(db, tm) ==
    [cookies |-> {c \in db.cookies : TextLess(CURRENT_TIMESTAMP(tm.utc), c.expires)},
     sessions |-> {s \in db.sessions : TextLess(CURRENT_TIMESTAMP(tm.utc), s.expires_at)}]

\* The rows the query of lines 133-137 can return: the unexpired rows of
\* the domain with the greatest created_at.
ActiveSessions(db, domain, tm) ==
    LET rows == {s \in db.sessions :
                    /\ s.domain = domain
                    /\ TextLess(CURRENT_TIMESTAMP(tm.utc), s.expires_at)}
    IN {s \in rows : \A o \in rows : ~TextLess(s.created_at, o.created_at)}

\* Lines 128-142: the session ids get_active_session can return; the empty
\* set stands for None.
get_active_session(db, domain, tm) ==
    {s.session_id : s \in ActiveSessions(db, domain, tm)}

\* Lines 107-126: the session row inserted; the md5 of the domain and of
\* the reading of the clock is a new id at every reading.
NewSession(domain, tm) ==
    [session_id |-> tm.readings + 1,
     domain |-> domain,
     created_at |-> CURRENT_TIMESTAMP(tm.utc),
     expires_at |-> isoformat(datetime_now(tm) + session_ttl_hours)]

start_new_session(db, domain, tm) ==
    [db EXCEPT !.sessions = @ \cup {NewSession(domain, tm)}]

\* Lines 73-89: the stored cookie list of the domain; <<>> stands for None
\* as for the empty list, which line 530 does not tell apart.
get_cookies_for_domain(db, domain, tm) ==
    LET rows == {c \in db.cookies :
                    /\ c.domain = domain
                    /\ TextLess(CURRENT_TIMESTAMP(tm.utc), c.expires)}
    IN IF rows = {} THEN <<>> ELSE loads((CHOOSE c \in rows : TRUE).cookies)

\* The row save_cookies_for_domain writes.
CookieRow(domain, cookies, tm) ==
    [domain |-> domain,
     cookies |-> dumps(cookies),
     expires |-> isoformat(datetime_now(tm) + 24 * cookie_expiration_days)]

\* A plain INSERT: the rows of the domain stay.
save_cookies_for_domain_M(db, domain, cookies, tm) ==
    [db EXCEPT !.cookies = @ \cup {CookieRow(domain, cookies, tm)}]

\* Lines 91-105: INSERT OR REPLACE on the primary key domain.
save_cookies_for_domain(db, domain, cookies, tm) ==
    [db EXCEPT !.cookies =
        {c \in @ : c.domain # domain} \cup {CookieRow(domain, cookies, tm)}]

\* The phrase looked for and what a page, a screenshot or an archived copy
\* can read: without the phrase (long and short), with it in other case, and
\* with a word one edit away from it.
Phrase == <<"o", "k">>
LongText == <<"z", "z", " ", "z", "z", "z", "z">>
ShortText == <<"z", "z">>
ExactText == <<"x", " ", "O", "K">>
NearText == <<"o", "c">>

\* context.cookies(): no cookie, or one of two cookie lists.
CookieLists == {<<>>, <<"c1">>, <<"c2">>}

\* What perform_ocr_fallback meets: an exception in the screenshot or in
\* tesseract, or the text read from the screenshot.
OcrInputs ==
    {[raises |-> TRUE, text |-> <<>>]}
    \cup {[raises |-> FALSE, text |-> t] : t \in {<<>>, ExactText, ShortText}}

\* What check_wayback_machine meets: an exception in a request, no snapshot
\* (text <<>>), or the archived page.
WaybackInputs ==
    {[raises |-> TRUE, text |-> <<>>]}
    \cup {[raises |-> FALSE, text |-> t] : t \in {<<>>, ExactText, ShortText}}

\* What one attempt meets after its browser was launched: an exception
\* before the content is read, or a page with its cookies and what each
\* later stage would give.
PageInputs(contents, cookies) ==
    [raises : {FALSE}, goto : {"loaded"}, content : contents, cookies : cookies,
     fuzzy_raises : BOOLEAN, ocr : OcrInputs, wayback : WaybackInputs]

RaiseInput ==
    [raises |-> TRUE, goto |-> "loaded", content |-> <<>>, cookies |-> <<>>,
     fuzzy_raises |-> FALSE,
     ocr |-> [raises |-> TRUE, text |-> <<>>],
     wayback |-> [raises |-> TRUE, text |-> <<>>]]

\* What a stage gives that reads nothing, and what it gives when it reads
\* the phrase.
Nothing == [raises |-> FALSE, text |-> <<>>]
Reads == [raises |-> FALSE, text |-> ExactText]

\* The attempts of the loop: an exception, or a page without the phrase or
\* with it, with cookies or without, whose archived copy may hold the phrase.
AttemptInputs ==
    {RaiseInput}
    \cup [raises : {FALSE}, goto : {"loaded"}, content : {LongText, ShortText, ExactText},
          cookies : {<<>>, <<"c1">>}, fuzzy_raises : {FALSE},
          ocr : {Nothing}, wayback : {Nothing, Reads}]

\* The attempts under which the detection chain is examined.
DetectionInputs ==
    {RaiseInput}
    \cup PageInputs({ShortText, ExactText, Phrase, NearText}, {<<"c1">>})

\* Lines 352-376: the text of the screenshot, "" when the switch is off or
\* anything raises.
perform_ocr_fallback(resilience, o) ==
    IF ~resilience.ocr_enabled \/ o.raises THEN <<>> ELSE o.text

\* Lines 378-400: the archived page, None (<<>>) when the switch is off,
\* anything raises or there is no snapshot.
check_wayback_machine(resilience, w) ==
    IF ~resilience.wayback_enabled \/ w.raises THEN <<>> ELSE w.text

\* Line 646 and its like: target_phrase.lower() in text.lower().
Occurs(target_phrase, text) == Contains(lower(target_phrase), lower(text))

\* A chain in which an exception in the OCR stage ends the evaluation.
Detection_stop_M(resilience, target_phrase, inp) ==
    LET found1 == Occurs(target_phrase, inp.content)
        fuzzy_call == ~found1 /\ resilience.fuzzy_match_enabled
        found2 == found1 \/ (/\ fuzzy_call
                             /\ ~inp.fuzzy_raises
                             /\ fuzzy_match_content(resilience, inp.content, target_phrase))
        ocr_call == ~found2 /\ resilience.ocr_enabled
        ocr_text == perform_ocr_fallback(resilience, inp.ocr)
        found3 == found2 \/ (ocr_call /\ ocr_text # <<>> /\ Occurs(target_phrase, ocr_text))
        wayback_call == ~found3 /\ resilience.wayback_enabled /\ ~(ocr_call /\ inp.ocr.raises)
        wayback_content == check_wayback_machine(resilience, inp.wayback)
        found4 == found3 \/ (/\ wayback_call
                             /\ wayback_content # <<>>
                             /\ Occurs(target_phrase, wayback_content))
    IN [found |-> found4,
        calls |-> <<"substring">>
                  \o (IF fuzzy_call THEN <<"fuzzy">> ELSE <<>>)
                  \o (IF ocr_call THEN <<"ocr">> ELSE <<>>)
                  \o (IF wayback_call THEN <<"wayback">> ELSE <<>>),
        warnings |-> (IF fuzzy_call /\ inp.fuzzy_raises THEN {"fuzzy"} ELSE {})
                     \cup (IF ocr_call /\ inp.ocr.raises THEN {"ocr"} ELSE {})
                     \cup (IF wayback_call /\ inp.wayback.raises THEN {"wayback"} ELSE {})]

\* A chain that runs the OCR stage whatever the stages before it found.
Detection_eager_M(resilience, target_phrase, inp) ==
    LET found1 == Occurs(target_phrase, inp.content)
        fuzzy_call == ~found1 /\ resilience.fuzzy_match_enabled
        found2 == found1 \/ (/\ fuzzy_call
                             /\ ~inp.fuzzy_raises
                             /\ fuzzy_match_content(resilience, inp.content, target_phrase))
        ocr_call == resilience.ocr_enabled
        ocr_text == perform_ocr_fallback(resilience, inp.ocr)
        found3 == found2 \/ (ocr_call /\ ocr_text # <<>> /\ Occurs(target_phrase, ocr_text))
        wayback_call == ~found3 /\ resilience.wayback_enabled
        wayback_content == check_wayback_machine(resilience, inp.wayback)
        found4 == found3 \/ (/\ wayback_call
                             /\ wayback_content # <<>>
                             /\ Occurs(target_phrase, wayback_content))
    IN [found |-> found4,
        calls |-> <<"substring">>
                  \o (IF fuzzy_call THEN <<"fuzzy">> ELSE <<>>)
                  \o (IF ocr_call THEN <<"ocr">> ELSE <<>>)
                  \o (IF wayback_call THEN <<"wayback">> ELSE <<>>),
        warnings |-> (IF fuzzy_call /\ inp.fuzzy_raises THEN {"fuzzy"} ELSE {})
                     \cup (IF ocr_call /\ inp.ocr.raises THEN {"ocr"} ELSE {})
                     \cup (IF wayback_call /\ inp.wayback.raises THEN {"wayback"} ELSE {})]

\* A chain that runs the archive lookup although its switch is off.
Detection_toggle_M(resilience, target_phrase, inp) ==
    LET found1 == Occurs(target_phrase, inp.content)
        fuzzy_call == ~found1 /\ resilience.fuzzy_match_enabled
        found2 == found1 \/ (/\ fuzzy_call
                             /\ ~inp.fuzzy_raises
                             /\ fuzzy_match_content(resilience, inp.content, target_phrase))
        ocr_call == ~found2 /\ resilience.ocr_enabled
        ocr_text == perform_ocr_fallback(resilience, inp.ocr)
        found3 == found2 \/ (ocr_call /\ ocr_text # <<>> /\ Occurs(target_phrase, ocr_text))
        wayback_call == ~found3
        wayback_content == check_wayback_machine(resilience, inp.wayback)
        found4 == found3 \/ (/\ wayback_call
                             /\ wayback_content # <<>>
                             /\ Occurs(target_phrase, wayback_content))
    IN [found |-> found4,
        calls |-> <<"substring">>
                  \o (IF fuzzy_call THEN <<"fuzzy">> ELSE <<>>)
                  \o (IF ocr_call THEN <<"ocr">> ELSE <<>>)
                  \o (IF wayback_call THEN <<"wayback">> ELSE <<>>),
        warnings |-> (IF fuzzy_call /\ inp.fuzzy_raises THEN {"fuzzy"} ELSE {})
                     \cup (IF ocr_call /\ inp.ocr.raises THEN {"ocr"} ELSE {})
                     \cup (IF wayback_call /\ inp.wayback.raises THEN {"wayback"} ELSE {})]

\* Lines 644-687: the stages in their order, each invoked only when the
\* stages before it found nothing and its switch is on; the stages invoked
\* and the stages that logged a failure.  An exception inside a stage is
\* caught there (lines 367, 397, 423) and the stage gives no match.
Detection(resilience, target_phrase, inp) ==
    LET found1 == Occurs(target_phrase, inp.content)
        fuzzy_call == ~found1 /\ resilience.fuzzy_match_enabled
        found2 == found1 \/ (/\ fuzzy_call
                             /\ ~inp.fuzzy_raises
                             /\ fuzzy_match_content(resilience, inp.content, target_phrase))
        ocr_call == ~found2 /\ resilience.ocr_enabled
        ocr_text == perform_ocr_fallback(resilience, inp.ocr)
        found3 == found2 \/ (ocr_call /\ ocr_text # <<>> /\ Occurs(target_phrase, ocr_text))
        wayback_call == ~found3 /\ resilience.wayback_enabled
        wayback_content == check_wayback_machine(resilience, inp.wayback)
        found4 == found3 \/ (/\ wayback_call
                             /\ wayback_content # <<>>
                             /\ Occurs(target_phrase, wayback_content))
    IN [found |-> found4,
        calls |-> <<"substring">>
                  \o (IF fuzzy_call THEN <<"fuzzy">> ELSE <<>>)
                  \o (IF ocr_call THEN <<"ocr">> ELSE <<>>)
                  \o (IF wayback_call THEN <<"wayback">> ELSE <<>>),
        warnings |-> (IF fuzzy_call /\ inp.fuzzy_raises THEN {"fuzzy"} ELSE {})
                     \cup (IF ocr_call /\ inp.ocr.raises THEN {"ocr"} ELSE {})
                     \cup (IF wayback_call /\ inp.wayback.raises THEN {"wayback"} ELSE {})]

\* An EnhancedMonitor that has not been asked anything yet.
NewMonitor(resilience) ==
    [resilience |-> resilience, pc |-> "idle", checks |-> 0,
     domain |-> "", target_phrase |-> <<>>, session_id |-> 0, stored_cookies |-> <<>>,
     attempt |-> 0, last_content |-> <<>>, browsers |-> 0, calls |-> <<>>,
     warnings |-> {},
     steps |-> <<>>, sleeps |-> <<>>, ocr_calls |-> 0, wayback_calls |-> 0,
     final_status |-> "pending"]

\* All the scheduler's variables.
svars == <<started, watchers, logs, jobs, manual_checks_in_progress, render_timeouts,
           queue, runs, created, clock, callers, ret, sent, render_js>>

\* Lines 458-486: the call, up to the head of the loop: the sweep, the
\* session of the domain, the stored cookies.
monitor_url(domain, target_phrase) ==
    /\ monitor.pc \in {"idle", "returned"}
    /\ LET swept == cleanup_expired_sessions(cookie_db, time)
           existing_session == get_active_session(swept, domain, time)
       IN /\ \/ /\ existing_session = {}
                /\ cookie_db' = start_new_session(swept, domain, time)
                /\ time' = [time EXCEPT !.readings = @ + 1]
                /\ monitor' = [NewMonitor(monitor.resilience) EXCEPT
                                  !.pc = "loop",
                                  !.checks = monitor.checks + 1,
                                  !.browsers = monitor.browsers,
                                  !.domain = domain,
                                  !.target_phrase = target_phrase,
                                  !.session_id = NewSession(domain, time).session_id,
                                  !.stored_cookies =
                                      get_cookies_for_domain(swept, domain, time)]
             \/ /\ cookie_db' = swept
                /\ time' = time
                /\ \E id \in existing_session :
                      monitor' = [NewMonitor(monitor.resilience) EXCEPT
                                     !.pc = "loop",
                                     !.checks = monitor.checks + 1,
                                  !.browsers = monitor.browsers,
                                     !.domain = domain,
                                     !.target_phrase = target_phrase,
                                     !.session_id = id,
                                     !.stored_cookies =
                                         get_cookies_for_domain(swept, domain, time)]
    /\ UNCHANGED <<svars, scroll, rival>>

\* Lines 727-740: the except clause of the attempt.
OnException(m, attempt) ==
    [m EXCEPT !.attempt = attempt,
              !.steps = Append(@, "error"),
              !.final_status =
                  IF attempt >= m.resilience.max_retries THEN "failed" ELSE @,
              !.pc = IF attempt >= m.resilience.max_retries THEN "returned" ELSE "loop"]

\* Lines 720-725: the wait before the next attempt.
Backoff(m, attempt) ==
    IF attempt < m.resilience.max_retries
          /\ calculate_exponential_backoff(m.resilience, attempt) > 0
    THEN Append(m.sleeps,
                <<attempt, calculate_exponential_backoff(m.resilience, attempt)>>)
    ELSE m.sleeps

\* A loop that allows one more iteration.
LoopContinues_more_M(m) == m.attempt <= m.resilience.max_retries + 1

\* A loop of max_retries iterations.
LoopContinues_M(m) == m.attempt < m.resilience.max_retries

\* Line 488: the condition of the while loop.
LoopContinues(m) == m.attempt <= m.resilience.max_retries

\* Lines 488-512: the head of an iteration, up to the launch of its browser;
\* throttling or the launch may raise.
attempt_start(launched) ==
    /\ monitor.pc = "loop"
    /\ LoopContinues(monitor)
    /\ monitor' =
          IF launched
          THEN [monitor EXCEPT !.attempt = @ + 1, !.browsers = @ + 1, !.pc = "attempt"]
          ELSE OnException(monitor, monitor.attempt + 1)
    /\ UNCHANGED <<svars, scroll, rival, cookie_db, time>>

\* browser.close() only where the block is left at its end.
Finally_M(m) == IF m.pc = "returned" THEN m ELSE [m EXCEPT !.browsers = @ - 1]

\* Lines 717-718: finally: browser.close().
Finally(m) == [m EXCEPT !.browsers = @ - 1]

\* A match that is recorded while the loop goes on.
OnFound_M(m) ==
    [m EXCEPT !.steps = Append(@, "found"), !.final_status = "success"]

\* Lines 697-707: the match ends the call.
OnFound(m) ==
    [m EXCEPT !.steps = Append(@, "found"), !.final_status = "success",
              !.pc = "returned"]

\* Lines 633-635 and 703-705: the cookies of the context are saved when
\* there are any.
SaveCookies(db, domain, cookies, tm) ==
    IF cookies # <<>> THEN save_cookies_for_domain(db, domain, cookies, tm) ELSE db

\* Lines 545-553: page.goto with the timeout rendering.max_timeout; a
\* PlaywrightTimeout is logged and the attempt goes on with the content the
\* page has.
page_goto(inp) == IF inp.goto = "timeout" THEN {"goto"} ELSE {}

\* Lines 514-740: the iteration from the launch of its browser to its end.
monitor_attempt(inp) ==
    /\ monitor.pc = "attempt"
    /\ LET attempt == monitor.attempt
           d == Detection(monitor.resilience, monitor.target_phrase, inp)
           counted == [monitor EXCEPT
                          !.pc = "loop",
                          !.calls = d.calls,
                          !.warnings = d.warnings \cup page_goto(inp),
                          !.ocr_calls = @ + Cardinality({i \in DOMAIN d.calls : d.calls[i] = "ocr"}),
                          !.wayback_calls =
                              @ + Cardinality({i \in DOMAIN d.calls : d.calls[i] = "wayback"})]
           stored == SaveCookies(cookie_db, monitor.domain, inp.cookies, time)
       IN IF inp.raises
          THEN /\ monitor' = Finally(OnException(monitor, attempt))
               /\ cookie_db' = cookie_db
          ELSE IF d.found
          THEN /\ monitor' = Finally(OnFound(counted))
               /\ cookie_db' = SaveCookies(stored, monitor.domain, inp.cookies, time)
          ELSE IF monitor.last_content # <<>>
                    /\ should_retry_based_on_size(Len(inp.content), Len(monitor.last_content))
          THEN /\ monitor' = Finally([counted EXCEPT !.steps = Append(@, "size_retry"),
                                                     !.last_content = inp.content])
               /\ cookie_db' = stored
          ELSE /\ monitor' = Finally([counted EXCEPT !.steps = Append(@, "no_match"),
                                                     !.last_content = inp.content,
                                                     !.sleeps = Backoff(monitor, attempt)])
               /\ cookie_db' = stored
    /\ UNCHANGED <<svars, scroll, rival, time>>

\* Lines 742-746: the loop ends without a match.
monitor_exhausted ==
    /\ monitor.pc = "loop"
    /\ ~LoopContinues(monitor)
    /\ monitor' = [monitor EXCEPT !.final_status = "not_found", !.pc = "returned"]
    /\ UNCHANGED <<svars, scroll, rival, cookie_db, time>>

\* Line 635 or 705 in a check that another EnhancedMonitor runs at the same
\* time on the same database file.
concurrent_save(domain, cookies) ==
    /\ cookies # <<>>
    /\ cookie_db' = save_cookies_for_domain(cookie_db, domain, cookies, time)
    /\ UNCHANGED <<svars, scroll, rival, monitor, time>>

\* The other process is not inside monitor_url.
NoCheck == [pc |-> "idle", domain |-> ""]

\* Lines 471-474 in the other process: the sweep and get_active_session,
\* each in a connection and a transaction of its own.  A session that is
\* found is reused; when none is found the process goes on to line 480.
concurrent_lookup(domain) ==
    /\ rival.pc = "idle"
    /\ LET swept == cleanup_expired_sessions(cookie_db, time)
       IN /\ cookie_db' = swept
          /\ rival' = IF get_active_session(swept, domain, time) = {}
                      THEN [pc |-> "start_new_session", domain |-> domain]
                      ELSE [pc |-> "loop", domain |-> domain]
    /\ UNCHANGED <<svars, scroll, monitor, time>>

\* Line 480 in the other process.
concurrent_start_new_session ==
    /\ rival.pc = "start_new_session"
    /\ cookie_db' = start_new_session(cookie_db, rival.domain, time)
    /\ time' = [time EXCEPT !.readings = @ + 1]
    /\ rival' = [rival EXCEPT !.pc = "loop"]
    /\ UNCHANGED <<svars, scroll, monitor>>

\* An hour passes.
tick ==
    /\ time.elapsed < MaxHours
    /\ time' = [time EXCEPT !.utc = @ + 1, !.elapsed = @ + 1]
    /\ UNCHANGED <<svars, scroll, rival, monitor, cookie_db>>

(***************************************************************************)
(* perform_smart_interactions (line 562 of an attempt): the scroll loop,   *)
(* followed poll by poll.  A poll presses End, waits and reads             *)
(* document.body.scrollHeight.                                             *)
(***************************************************************************)
\* The locals of lines 243 and 245.
max_scrolls == 30
required_stable_checks == 3

\* RenderingConfig as the dataclass builds it, and the values of
\* rendering.max_scrolls that parse_config_data can put in it.
DefaultRendering == [max_scrolls |-> 3]
RenderingConfigs == [max_scrolls : {1, 3, 40}]

\* No call has been made.
NewScroll(rendering) ==
    [rendering |-> rendering, pc |-> "idle", i |-> 0, last_height |-> 0,
     consecutive_stable_checks |-> 0, shakes |-> 0, stable |-> FALSE]

\* Lines 240-245: the first reading of the height.
perform_smart_interactions(height) ==
    /\ scroll.pc = "idle"
    /\ scroll' = [scroll EXCEPT !.pc = "scrolling", !.last_height = height]
    /\ UNCHANGED <<svars, monitor, cookie_db, time, rival>>

\* A loop that counts the unchanged polls without starting again when the
\* height changes.
scroll_poll_M(sc, new_height) ==
    IF new_height = sc.last_height
    THEN IF sc.consecutive_stable_checks + 1 >= required_stable_checks
         THEN [sc EXCEPT !.i = @ + 1, !.consecutive_stable_checks = @ + 1,
                         !.stable = TRUE, !.pc = "done"]
         ELSE [sc EXCEPT !.i = @ + 1, !.consecutive_stable_checks = @ + 1,
                         !.shakes = @ + 1,
                         !.pc = IF sc.i + 1 = max_scrolls THEN "done" ELSE @]
    ELSE [sc EXCEPT !.i = @ + 1, !.last_height = new_height,
                    !.pc = IF sc.i + 1 = max_scrolls THEN "done" ELSE @]

\* Lines 247-275: one iteration of the loop.  An unchanged height is
\* counted and ends the loop at required_stable_checks, otherwise the page
\* is shaken (PageUp three times, End); a changed height starts the count
\* again.  The loop also ends after max_scrolls iterations.
scroll_poll(sc, new_height) ==
    IF new_height = sc.last_height
    THEN IF sc.consecutive_stable_checks + 1 >= required_stable_checks
         THEN [sc EXCEPT !.i = @ + 1, !.consecutive_stable_checks = @ + 1,
                         !.stable = TRUE, !.pc = "done"]
         ELSE [sc EXCEPT !.i = @ + 1, !.consecutive_stable_checks = @ + 1,
                         !.shakes = @ + 1,
                         !.pc = IF sc.i + 1 = max_scrolls THEN "done" ELSE @]
    ELSE [sc EXCEPT !.i = @ + 1, !.consecutive_stable_checks = 0,
                    !.last_height = new_height,
                    !.pc = IF sc.i + 1 = max_scrolls THEN "done" ELSE @]

\* The heights a poll can read after last_height: the same, a greater one,
\* a smaller one.
Heights(last_height) ==
    {last_height, last_height + 1} \cup {h \in {last_height - 1} : h >= 0}

poll(new_height) ==
    /\ scroll.pc = "scrolling"
    /\ scroll.i < max_scrolls
    /\ scroll' = scroll_poll(scroll, new_height)
    /\ UNCHANGED <<svars, monitor, cookie_db, time, rival>>

(***************************************************************************)
(* The specification.                                                      *)
(***************************************************************************)
EmptyMap == [x \in {} |-> None]

\* The rows the database holds when the process starts.
InitialRows == {NewWatcher(f) : f \in {g \in Forms : g.emails = "a@x"}}

InitScheduler ==
    /\ started = FALSE
    /\ \E S \in SUBSET Ids : watchers \in [S -> InitialRows]
    /\ logs = {}
    /\ jobs = {}
    /\ manual_checks_in_progress = {}
    /\ render_timeouts = EmptyMap
    /\ queue = [force \in BOOLEAN |-> [id \in Ids |-> 0]]
    /\ runs = {}
    /\ created = 0
    /\ clock = 0
    /\ callers = [id \in Ids |-> 0]
    /\ ret = "none"
    /\ sent = {}
    /\ render_js \in BOOLEAN

\* The clock at noon of the second day, in a process that runs in UTC.
Noon == [utc |-> 36, offset |-> 0, readings |-> 0, elapsed |-> 0]

Init ==
    /\ InitScheduler
    /\ monitor = NewMonitor(DefaultResilience)
    /\ cookie_db = ensure_cookie_storage
    /\ rival = NoCheck
    /\ scroll = NewScroll(DefaultRendering)
    /\ time = Noon

\* The requests that create, change and delete targets.
Crud(forms) ==
    \E id \in Ids :
        \/ \E form \in forms :
              \/ create_watcher(id, form)
              \/ update_watcher(id, form)
        \/ toggle_watcher(id)
        \/ delete_watcher(id)

\* The requests that ask for a check now.
Manual ==
    \E id \in Ids :
        \/ manual_check_test(id)
        \/ manual_check_add(id)

Fire == \E id \in Ids : fire_interval(id)

Load == \E id \in Ids, force \in BOOLEAN : run_check_load(id, force)

Missed == \E id \in Ids, force \in BOOLEAN : misfire(id, force)

Detect(fetches, renders) ==
    \E r \in runs, fetch \in fetches, render \in renders :
        run_check_detect(r, fetch, render)

Commit(outcomes) ==
    \E r \in runs, outcome \in outcomes : run_check_commit(r, outcome)

Email == \E r \in runs, delivered \in BOOLEAN : run_check_email(r, delivered)

Attempt(inputs) == \E inp \in inputs : monitor_attempt(inp)

\* The calls of monitor_url and the launches of a browser.
Check(domains, phrases, limit) ==
    /\ monitor.checks < limit
    /\ \E domain \in domains, target_phrase \in phrases :
          monitor_url(domain, target_phrase)

Launch == \E launched \in BOOLEAN : attempt_start(launched)

\* Saves of another check running at the same time.
Concurrent(domains) ==
    \E domain \in domains, cookies \in CookieLists : concurrent_save(domain, cookies)

Domains == {"a.example", "b.example"}

\* The whole program, with every input of the model.
Next ==
    \/ Check(Domains, {Phrase}, MaxChecks)
    \/ Launch
    \/ Attempt(AttemptInputs)
    \/ monitor_exhausted
    \/ Concurrent(Domains)
    \/ tick
    \/ on_startup
    \/ Crud(Forms)
    \/ Manual
    \/ Fire
    \/ Load
    \/ Missed
    \/ Detect(FetchInputs, RenderInputs)
    \/ Commit(CommitOutcomes)
    \/ Email

Spec == Init /\ [][Next]_vars

(***************************************************************************)
(* The specifications the properties are checked under.  Each is the       *)
(* program above with the inputs narrowed to those its properties turn on, *)
(* so that the reachable states can be enumerated.                         *)
(***************************************************************************)
\* settings.render_js at its default, as at its other value.
InitNoJs == Init /\ ~render_js

\* The browser is not used.
NoRender == {[goto |-> "raise", d |-> 0, has |-> FALSE]}

\* A quick page without the phrase and a slow one with it.
TwoRenders ==
    {[goto |-> "loaded", d |-> 10, has |-> FALSE],
     [goto |-> "loaded", d |-> 150, has |-> TRUE]}

\* The job store under every request that registers targets, with the
\* interval executions those jobs start.
NextJobs ==
    \/ on_startup
    \/ Crud(Forms)
    \/ Fire
    \/ Load
    \/ Missed
    \/ Detect({"absent"}, NoRender)
    \/ Commit(OkOrStale)

SpecJobs == InitNoJs /\ [][NextJobs]_vars

\* The manual checks of the targets the database holds at startup, beside
\* their interval executions.
NextManual ==
    \/ on_startup
    \/ Manual
    \/ Fire
    \/ Load
    \/ Missed
    \/ Detect(FoundOrRaise, NoRender)
    \/ Commit(CommitOutcomes)
    \/ Email

SpecManual == InitNoJs /\ [][NextManual]_vars

\* The worker pool runs what is submitted to it, every blocking call of
\* run_check returns, and a request thread inside manual_check goes on.
FairManual ==
    /\ SpecManual
    /\ WF_vars(Load)
    /\ WF_vars(Detect(FoundOrRaise, NoRender))
    /\ WF_vars(Commit(CommitOutcomes))
    /\ WF_vars(Email)
    /\ WF_vars(\E id \in Ids : manual_check_add(id))

\* Manual and interval executions of targets that are enabled, disabled and
\* deleted while they run.
Toggles == \E id \in Ids : toggle_watcher(id) \/ delete_watcher(id)

NextChecks ==
    \/ on_startup
    \/ Toggles
    \/ Manual
    \/ Fire
    \/ Load
    \/ Missed
    \/ Detect(AbsentOrRaise, TwoRenders)
    \/ Commit({"ok"})
    \/ Email

SpecChecks == Init /\ [][NextChecks]_vars

\* The interval executions of targets whose recipients are changed between
\* checks, with every outcome of the commit and of the delivery.
Updates == \E id \in Ids, form \in Forms : update_watcher(id, form)

NextNotify ==
    \/ on_startup
    \/ Updates
    \/ Fire
    \/ Load
    \/ Detect(FoundOrAbsent, NoRender)
    \/ Commit(CommitOutcomes)
    \/ Email

SpecNotify == InitNoJs /\ [][NextNotify]_vars

\* The interval executions with JS rendering on and every outcome of the
\* browser.
InitJs == Init /\ render_js

NextRender ==
    \/ on_startup
    \/ Fire
    \/ Load
    \/ Detect(FoundOrAbsent, RenderInputs)
    \/ Commit({"ok"})

SpecRender == InitJs /\ [][NextRender]_vars

\* The interval executions with JS rendering on or off, under every
\* outcome of the plain fetch and of the browser.
NextFetch ==
    \/ on_startup
    \/ Fire
    \/ Load
    \/ Detect(FetchInputs, RenderInputs)
    \/ Commit({"ok"})

SpecFetch == Init /\ [][NextFetch]_vars

\* The same executions of targets that are disabled and enabled again
\* while their executions wait, so that some checks are skipped.
NextLearn ==
    \/ NextFetch
    \/ \E id \in Ids : toggle_watcher(id)

SpecLearn == Init /\ [][NextLearn]_vars

\* monitor_url alone, under every ResilienceConfig of the model; the
\* scheduler is not running.
InitMonitor ==
    /\ InitScheduler
    /\ watchers = EmptyMap
    /\ ~render_js
    /\ \E resilience \in ResilienceConfigs : monitor = NewMonitor(resilience)
    /\ cookie_db = ensure_cookie_storage
    /\ rival = NoCheck
    /\ scroll = NewScroll(DefaultRendering)
    /\ time = Noon

NextMonitor ==
    \/ Check({"a.example"}, {Phrase}, 1)
    \/ Launch
    \/ Attempt(AttemptInputs)
    \/ monitor_exhausted

SpecMonitor == InitMonitor /\ [][NextMonitor]_vars

\* The launch of a browser, the work of an attempt on the page and the
\* waits between attempts come to an end.
FairMonitor ==
    /\ SpecMonitor
    /\ WF_vars(Launch)
    /\ WF_vars(Attempt(AttemptInputs))
    /\ WF_vars(monitor_exhausted)

\* One attempt of monitor_url under every combination of the stage switches,
\* with every answer the stages can give.
InitDetect ==
    /\ InitScheduler
    /\ watchers = EmptyMap
    /\ ~render_js
    /\ \E resilience \in DetectionConfigs : monitor = NewMonitor(resilience)
    /\ cookie_db = ensure_cookie_storage
    /\ rival = NoCheck
    /\ scroll = NewScroll(DefaultRendering)
    /\ time = Noon

NextDetect ==
    \/ Check({"a.example"}, {Phrase}, 1)
    \/ Launch
    \/ Attempt(DetectionInputs)
    \/ monitor_exhausted

SpecDetect == InitDetect /\ [][NextDetect]_vars

\* The browsers of both renderers: the interval executions of one target
\* with JS rendering on, and beside them a call of monitor_url with one
\* retry.
BrowserConfigs ==
    {r \in ResilienceConfigs :
        /\ r.max_retries = 1
        /\ r.retry_strategy = RetryStrategy("exponential_backoff")
        /\ r.backoff_base = 1
        /\ r.ocr_enabled /\ r.wayback_enabled /\ r.fuzzy_match_enabled}

InitBrowsers ==
    /\ InitScheduler
    /\ render_js
    /\ DOMAIN watchers = {1}
    /\ \E resilience \in BrowserConfigs : monitor = NewMonitor(resilience)
    /\ cookie_db = ensure_cookie_storage
    /\ rival = NoCheck
    /\ scroll = NewScroll(DefaultRendering)
    /\ time = Noon

NextBrowsers ==
    \/ NextRender
    \/ NextMonitor

SpecBrowsers == InitBrowsers /\ [][NextBrowsers]_vars

\* The words the fuzzy stage is examined with.
color == <<"c", "o", "l", "o", "r">>
colour == <<"c", "o", "l", "o", "u", "r">>
Colot == <<"C", "o", "l", "o", "t">>
FuzzyPhrases == {colour, color, color \o <<" ">> \o ShortText}
FuzzyContents ==
    {<<>>, color, Colot, ShortText \o <<" ">> \o color, ShortText,
     <<" ">> \o colour \o <<" ">>}

\* The configurations of the fuzzy stage: on or off, threshold 80 or 85, the
\* later stages off.
FuzzyConfigs ==
    [max_retries : {0},
     retry_strategy : {RetryStrategy("exponential_backoff")},
     backoff_base : {1},
     backoff_max : {5},
     fuzzy_match_threshold : {80, 85},
     ocr_enabled : {FALSE},
     wayback_enabled : {FALSE},
     fuzzy_match_enabled : BOOLEAN]

FuzzyInputs ==
    {RaiseInput}
    \cup [raises : {FALSE}, goto : {"loaded"}, content : FuzzyContents, cookies : {<<>>},
          fuzzy_raises : {FALSE}, ocr : {Nothing}, wayback : {Nothing}]

\* One attempt of monitor_url whose fuzzy stage compares the contents with
\* the phrases above.
InitFuzzy ==
    /\ InitScheduler
    /\ watchers = EmptyMap
    /\ ~render_js
    /\ \E resilience \in FuzzyConfigs : monitor = NewMonitor(resilience)
    /\ cookie_db = ensure_cookie_storage
    /\ rival = NoCheck
    /\ scroll = NewScroll(DefaultRendering)
    /\ time = Noon

NextFuzzy ==
    \/ Check({"a.example"}, FuzzyPhrases, 1)
    \/ Launch
    \/ Attempt(FuzzyInputs)
    \/ monitor_exhausted

SpecFuzzy == InitFuzzy /\ [][NextFuzzy]_vars

\* The attempts of a check whose navigation ends in time or runs into the
\* ceiling rendering.max_timeout, on a page with the phrase or without it.
NavigationInputs ==
    {RaiseInput}
    \cup [raises : {FALSE}, goto : {"loaded", "timeout"},
          content : {<<>>, ShortText, ExactText},
          cookies : {<<>>}, fuzzy_raises : {FALSE},
          ocr : {Nothing}, wayback : {Nothing}]

\* The configurations that differ in max_retries alone.
NavigationConfigs ==
    {r \in ResilienceConfigs :
        /\ r.retry_strategy = RetryStrategy("exponential_backoff")
        /\ r.backoff_base = 1
        /\ ~r.ocr_enabled /\ ~r.wayback_enabled /\ ~r.fuzzy_match_enabled}

InitNavigation ==
    /\ InitScheduler
    /\ watchers = EmptyMap
    /\ ~render_js
    /\ \E resilience \in NavigationConfigs : monitor = NewMonitor(resilience)
    /\ cookie_db = ensure_cookie_storage
    /\ rival = NoCheck
    /\ scroll = NewScroll(DefaultRendering)
    /\ time = Noon

NextNavigation ==
    \/ Check({"a.example"}, {Phrase}, 1)
    \/ Launch
    \/ Attempt(NavigationInputs)
    \/ monitor_exhausted

SpecNavigation == InitNavigation /\ [][NextNavigation]_vars

\* One call of perform_smart_interactions on pages whose height stays,
\* grows or shrinks from poll to poll, under several values of
\* rendering.max_scrolls.
InitScroll ==
    /\ InitScheduler
    /\ watchers = EmptyMap
    /\ ~render_js
    /\ monitor = NewMonitor(DefaultResilience)
    /\ cookie_db = ensure_cookie_storage
    /\ rival = NoCheck
    /\ time = Noon
    /\ \E rendering \in RenderingConfigs : scroll = NewScroll(rendering)

Interact == \E height \in {0, 2} : perform_smart_interactions(height)

Poll == \E new_height \in Heights(scroll.last_height) : poll(new_height)

NextScroll ==
    \/ Interact
    \/ Poll

SpecScroll == InitScroll /\ [][NextScroll]_vars

\* Every evaluation and every wait of the page returns.
FairScroll == SpecScroll /\ WF_vars(Poll)

\* The hours at which the process is observed: 02:00 and 22:00 UTC of the
\* second day; and the offsets of its local time from UTC.
StartHours == {26, 46}
Offsets == {-5, 0, 5}

\* One attempt per check, no later stage.
SessionConfigs ==
    {r \in ResilienceConfigs :
        /\ r.max_retries = 0
        /\ r.retry_strategy = RetryStrategy("none")
        /\ r.backoff_base = 1
        /\ ~r.ocr_enabled /\ ~r.wayback_enabled /\ ~r.fuzzy_match_enabled}

\* The attempts of a check whose context holds no cookie, one list or
\* another, on a page with the phrase or without it.
SessionInputs ==
    {RaiseInput}
    \cup [raises : {FALSE}, goto : {"loaded"}, content : {ShortText, ExactText},
          cookies : CookieLists, fuzzy_raises : {FALSE},
          ocr : {Nothing}, wayback : {Nothing}]

\* Checks of two domains one after the other, while other checks save
\* cookies in the same file and time passes, in a process whose local
\* time is behind UTC, equal to it or ahead of it.
InitSessions ==
    /\ InitScheduler
    /\ watchers = EmptyMap
    /\ ~render_js
    /\ \E resilience \in SessionConfigs : monitor = NewMonitor(resilience)
    /\ cookie_db = ensure_cookie_storage
    /\ rival = NoCheck
    /\ scroll = NewScroll(DefaultRendering)
    /\ \E utc \in StartHours, offset \in Offsets :
          time = [utc |-> utc, offset |-> offset, readings |-> 0, elapsed |-> 0]

NextSessions ==
    \/ Check(Domains, {Phrase}, MaxChecks)
    \/ Launch
    \/ Attempt(SessionInputs)
    \/ monitor_exhausted
    \/ Concurrent(Domains)
    \/ tick

SpecSessions == InitSessions /\ [][NextSessions]_vars

\* The same checks and saves in a process that runs in UTC, from noon.
InitCookies ==
    /\ InitScheduler
    /\ watchers = EmptyMap
    /\ ~render_js
    /\ \E resilience \in SessionConfigs : monitor = NewMonitor(resilience)
    /\ cookie_db = ensure_cookie_storage
    /\ rival = NoCheck
    /\ scroll = NewScroll(DefaultRendering)
    /\ time = Noon

SpecCookies == InitCookies /\ [][NextSessions]_vars

\* Checks of one domain by this process and by another one at the same
\* time, both running in UTC.
Rival(domains) ==
    \/ \E domain \in domains : concurrent_lookup(domain)
    \/ concurrent_start_new_session

NextRace ==
    \/ Check({"a.example"}, {Phrase}, MaxChecks)
    \/ Launch
    \/ Attempt(SessionInputs)
    \/ monitor_exhausted
    \/ Rival({"a.example"})

SpecRace == InitCookies /\ [][NextRace]_vars

(***************************************************************************)
(* Properties of manual_check.                                             *)
(***************************************************************************)
\* The manual executions of a target: one-off jobs waiting and running.
ManualExecutions(id) ==
    queue[TRUE][id] + Cardinality({r \in runs : r.id = id /\ r.force})

\* C1: a call of manual_check(id) that finds id in manual_checks_in_progress
\* returns False, queues no job and leaves the set as it was; a call goes past
\* the test only when id is not in the set, and such a call adds id to the
\* set, queues exactly one forced one-off execution of id and returns True.
C1_manual_check ==
    [][\A id \in Ids :
          /\ (manual_check_test(id) /\ id \in manual_checks_in_progress)
                => /\ ret' = "False"
                   /\ UNCHANGED <<manual_checks_in_progress, queue, runs, jobs,
                                  created, callers>>
          /\ callers'[id] > callers[id] => id \notin manual_checks_in_progress
          /\ callers'[id] < callers[id]
                => /\ ret' = "True"
                   /\ id \in manual_checks_in_progress'
                   /\ queue' = [queue EXCEPT ![TRUE][id] = @ + 1]
                   /\ UNCHANGED <<runs, jobs>>]_vars

\* A call was refused while the one manual execution of the target waits.
C1_witness ==
    /\ ret = "False"
    /\ \E id \in manual_checks_in_progress : queue[TRUE][id] = 1

\* C2: every manual_check(id) that returned True is eventually followed by
\* the removal of id from manual_checks_in_progress.
C2_marker_cleared ==
    \A id \in Ids :
        (id \in manual_checks_in_progress) ~> (id \notin manual_checks_in_progress)

\* C3: at most one manual execution of a target, waiting or running, exists
\* at any time, however the concurrent calls of manual_check interleave.
C3_one_manual_execution ==
    \A id \in Ids : ManualExecutions(id) <= 1

(***************************************************************************)
(* Properties of the job store.                                            *)
(***************************************************************************)
TheJob(id, minutes) == [id |-> _job_id(id), watcher_id |-> id, minutes |-> minutes]

\* C4: whatever load_and_schedule, reschedule and remove_job calls have been
\* made, the job store holds at most one interval job per target: registering
\* a target again replaces its job.
C4_one_job_per_target ==
    \A id \in Ids : Cardinality(JobsOf(id)) <= 1

\* A target registered at startup with one interval and again with another.
C4_witness ==
    \E id \in DOMAIN watchers :
        /\ watchers[id].interval_minutes = 1
        /\ JobsOf(id) = {TheJob(id, 1)}

\* C5: a handler that registers a target leaves no job for it when the target
\* is disabled and exactly one job, with the interval of the target, when it
\* is enabled; a job is in the store only for a target whose latest
\* registration was enabled, and carries the interval of that registration.
C5_job_follows_registration ==
    /\ [](\A j \in jobs :
             /\ j.watcher_id \in DOMAIN watchers
             /\ watchers[j.watcher_id].enabled
             /\ j = TheJob(j.watcher_id, watchers[j.watcher_id].interval_minutes))
    /\ [][\A id \in Ids :
             (/\ id \in DOMAIN watchers'
              /\ id \in DOMAIN watchers => watchers'[id] # watchers[id])
                => JobsOf(id)' =
                      IF watchers'[id].enabled
                      THEN {TheJob(id, watchers'[id].interval_minutes)}
                      ELSE {}]_vars

\* A target registered with an interval of one minute and then disabled.
C5_witness ==
    \E id \in DOMAIN watchers :
        /\ ~watchers[id].enabled
        /\ watchers[id].interval_minutes = 1
        /\ JobsOf(id) = {}

\* C6: at most one interval execution of a target is submitted or running at
\* any time, also when reschedule replaces the job during a run: a firing
\* that comes due meanwhile queues nothing.
C6_no_overlap ==
    \A id \in Ids : Instances(id) <= 1

\* An interval execution is running and the target was registered again with
\* other values after the execution loaded it; its job is in the store.
C6_witness ==
    \E r \in runs :
        /\ ~r.force
        /\ r.id \in DOMAIN watchers
        /\ watchers[r.id].emails # r.emails
        /\ JobsOf(r.id) # {}

(***************************************************************************)
(* Properties of run_check.                                                *)
(***************************************************************************)
\* C7: a manual and an interval execution of one target can run at the same
\* time.  A due firing of the interval job is submitted while a manual
\* execution of the target is marked, waiting or running, and manual_check
\* goes past its test while an interval execution of the target is waiting
\* or running; each of two such executions appends its check record when its
\* commit succeeds and stores the learned render timeout when it rendered.
C7_manual_and_interval_overlap ==
    /\ [](\A id \in Ids :
             /\ (/\ started /\ JobsOf(id) # {} /\ Instances(id) = 0 /\ Room
                 /\ id \in manual_checks_in_progress /\ ManualExecutions(id) > 0)
                    => ENABLED (fire_interval(id) /\ queue'[FALSE][id] = 1)
             /\ (/\ started /\ Instances(id) > 0 /\ Room
                 /\ id \notin manual_checks_in_progress)
                    => ENABLED (manual_check_test(id) /\ callers'[id] = callers[id] + 1))
    /\ [][\A r \in runs :
             (\E o \in runs : o.id = r.id /\ o.force # r.force)
                => /\ run_check_commit(r, "ok") => CheckLog(r) \in logs'
                   /\ \A render \in TwoRenders :
                         (render_js /\ run_check_detect(r, "absent", render))
                            => /\ r.id \in DOMAIN render_timeouts'
                               /\ render_timeouts'[r.id] = suggested_timeout(render.d)]_vars

\* An interval execution of a target is about to commit, and a manual
\* execution of the target that started after it has committed its record
\* and stored a render timeout.
C7_witness ==
    \E r \in runs, l \in logs :
        /\ ~r.force
        /\ r.pc = "commit"
        /\ l.watcher_id = r.id
        /\ l.checked_at > r.now
        /\ r.id \in DOMAIN render_timeouts

\* C8: run_check(id, force) does nothing when the target is absent, or is
\* disabled and force is false: no detection starts, no check record is
\* written, the watchers table, the learned render timeouts and the job store
\* stay as they were and nothing is sent.  In every other case, that of a
\* disabled target with force=True among them, the check starts.
C8_skip_or_check ==
    [][\A id \in Ids, force \in BOOLEAN :
          run_check_load(id, force)
             => IF id \notin DOMAIN watchers \/ (~watchers[id].enabled /\ ~force)
                THEN UNCHANGED <<watchers, logs, render_timeouts, jobs, sent,
                                 runs, clock>>
                ELSE \E r \in runs' \ runs :
                        /\ r.id = id
                        /\ r.force = force
                        /\ r.pc = "detect"]_vars

\* The one execution submitted so far was a manual one; run_check has
\* returned from it, clearing the marker, without reading the clock.
C8_witness ==
    /\ ret = "True"
    /\ created = 1
    /\ manual_checks_in_progress = {}
    /\ \A id \in Ids : callers[id] = 0 /\ ManualExecutions(id) = 0
    /\ clock = 0
    /\ logs = {}

\* A step that registers the target: startup, or a handler calling reschedule.
Registers(id) ==
    \/ on_startup
    \/ \E form \in Forms : create_watcher(id, form) \/ update_watcher(id, form)
    \/ toggle_watcher(id)

\* C9: when db.commit() raises StaleDataError, run_check ends there: the logs
\* and watchers tables are as before, nothing is sent, and the target has no
\* interval job; a target without a job gets one only by being registered.
C9_conflict_deregisters ==
    [][/\ \A r \in runs :
             run_check_commit(r, "stale")
                => /\ UNCHANGED <<logs, watchers, sent>>
                   /\ r \notin runs'
                   /\ \A o \in runs' : o.pc # "email" \/ o \in runs
                   /\ JobsOf(r.id)' = {}
       /\ \A id \in Ids :
             (JobsOf(id) = {} /\ JobsOf(id)' # {}) => Registers(id)]_vars

\* After a conflict: an enabled target of a started scheduler has no job and
\* no check record, and nothing was sent about it.
C9_witness ==
    \E id \in DOMAIN watchers :
        /\ started
        /\ watchers[id].enabled
        /\ JobsOf(id) = {}
        /\ \A l \in logs : l.watcher_id # id
        /\ \A e \in sent : e.watcher_id # id

\* C10: after an execution of run_check commits its check without a conflict,
\* the row of the target holds the timestamp, status and error message of
\* that execution in last_check_at, last_status and last_error, the values
\* of the check record the execution wrote.
C10_cached_fields ==
    [][\A r \in runs :
          (run_check_commit(r, "ok") /\ r.id \in DOMAIN watchers')
             => /\ CheckLog(r) \in logs'
                /\ watchers'[r.id].last_check_at = r.now
                /\ watchers'[r.id].last_status = r.status
                /\ watchers'[r.id].last_error = r.error]_vars

\* C11: a successful commit of run_check adds exactly one check record, that
\* of the execution, to the logs table and leaves every record already there
\* as it was; no step of run_check removes or changes a record, so records
\* disappear only when a delete request removes their target.
C11_append_only ==
    [][/\ \A r \in runs :
             run_check_commit(r, "ok")
                => CheckLog(r) \notin logs /\ logs' = logs \cup {CheckLog(r)}
       /\ ~(logs \subseteq logs') => \E id \in Ids : delete_watcher(id)
       /\ Cardinality(logs') <= Cardinality(logs) + 1]_vars

\* Two executions of one target have each committed a record.
C11_witness ==
    \E l1, l2 \in logs :
        /\ l1.watcher_id = l2.watcher_id
        /\ l1.checked_at < l2.checked_at

(***************************************************************************)
(* Properties of the notification.                                         *)
(***************************************************************************)
\* The send_email calls of the execution r.
SentBy(r, es) == {e \in es : e.watcher_id = r.id /\ e.now = r.now}

\* C12, as first stated: every execution that returns or raises with status
\* found for a target with a non-blank recipient has sent a notification.
C12_sent_iff_found ==
    [][\A r \in runs :
          (/\ \A o \in runs' : o.now # r.now
           /\ r.status = "found"
           /\ Recipients(r.emails) # {})
             => SentBy(r, sent') # {}]_vars

\* C12: send_email is called in an execution exactly when its commit
\* succeeded, its status is found and its target has a non-blank recipient.
\* The call comes after the commit of the check record and at most once in
\* the execution; whether it returns or raises, run_check returns and the
\* logs and watchers tables stay as committed.
C12_notification ==
    [][/\ sent' # sent
          => \E r \in runs, delivered \in BOOLEAN :
                /\ sent' = sent \cup
                      {[watcher_id |-> r.id, now |-> r.now, delivered |-> delivered]}
                /\ SentBy(r, sent) = {}
                /\ r.status = "found"
                /\ Recipients(r.emails) # {}
                /\ CheckLog(r) \in logs
                /\ r \notin runs'
                /\ UNCHANGED <<logs, watchers>>
       /\ \A r \in runs, outcome \in CommitOutcomes :
             run_check_commit(r, outcome)
                => IF /\ outcome = "ok"
                      /\ r.status = "found"
                      /\ Recipients(r.emails) # {}
                   THEN [r EXCEPT !.pc = "email"] \in runs' /\ sent' = sent
                   ELSE r \notin runs' /\ sent' = sent]_vars

\* A delivery failed, and the record of that execution is in the logs
\* table with status found; another execution found the phrase for a target
\* without a non-blank recipient and committed without a call of send_email.
C12_witness ==
    /\ \E e \in sent, l \in logs :
          /\ ~e.delivered
          /\ l.watcher_id = e.watcher_id
          /\ l.checked_at = e.now
          /\ l.status = "found"
    /\ \E l \in logs :
          /\ l.status = "found"
          /\ \A e \in sent : e.now # l.checked_at
          /\ \A r \in runs : r.now # l.checked_at

\* C13: the check record of an execution that called send_email carries the
\* outcome of the call: email_sent is true after a delivery, and after a
\* failed delivery email_sent is false and email_error is set.
C13_outcome_on_record ==
    \A e \in sent, l \in logs :
        (l.watcher_id = e.watcher_id /\ l.checked_at = e.now)
           => /\ l.email_sent = e.delivered
              /\ ~e.delivered => l.email_error # None

(***************************************************************************)
(* Properties of the JS render.                                            *)
(***************************************************************************)
\* The render reached the ceiling: page.goto timed out, or returned after
\* MAX_RENDER_SECONDS or more.
OverCeiling(render) ==
    \/ render.goto = "timeout"
    \/ render.goto = "loaded" /\ render.d >= MAX_RENDER_SECONDS

\* C14: when the render of a check reaches the ceiling, _detect returns at
\* once with status heavy and a message, the learned render timeouts stay as
\* they were, and the check record run_check commits has status heavy.
C14_heavy ==
    [][\A r \in runs :
          /\ \A render \in RenderInputs :
                (/\ render_js
                 /\ OverCeiling(render)
                 /\ run_check_detect(r, "absent", render))
                   => /\ render_timeouts' = render_timeouts
                      /\ \E c \in runs' :
                            /\ c = [r EXCEPT !.pc = "commit", !.status = "heavy",
                                             !.error = c.error, !.rendered = TRUE]
                            /\ c.error # None
          /\ (r.status = "heavy" /\ run_check_commit(r, "ok"))
                => \E l \in logs' \ logs :
                      /\ l.watcher_id = r.id
                      /\ l.checked_at = r.now
                      /\ l.status = "heavy"
                      /\ l.error_message # None]_vars

\* A check of a target was recorded as heavy after an earlier check of the
\* target had stored a render timeout, which is still there.
C14_witness ==
    \E l \in logs, l0 \in logs :
        /\ l.status = "heavy"
        /\ l0.watcher_id = l.watcher_id
        /\ l0.checked_at < l.checked_at
        /\ l0.status = "not_found"
        /\ l.watcher_id \in DOMAIN render_timeouts

\* v is 1.3 * d clamped to [MIN_RENDER_SECONDS, MAX_RENDER_SECONDS], in
\* whole numbers: 13 * d is ten times 1.3 * d.
IsClamped13(v, d) ==
    IF 13 * d <= 10 * MIN_RENDER_SECONDS THEN v = MIN_RENDER_SECONDS
    ELSE IF 13 * d >= 10 * MAX_RENDER_SECONDS THEN v = MAX_RENDER_SECONDS
    ELSE 10 * v = 13 * d

InRange(v) == MIN_RENDER_SECONDS <= v /\ v <= MAX_RENDER_SECONDS

\* C15: a render that loads in d seconds, d below the ceiling, replaces the
\* learned timeout of its target by 1.3 * d clamped to [30, 180] (180 for
\* d = 150), and that value is the baseline the next check of the target
\* reads; every stored timeout and the default baseline lie in [30, 180].
C15_learned_timeout ==
    /\ [](/\ InRange(default_render_timeout)
          /\ \A id \in DOMAIN render_timeouts : InRange(render_timeouts[id])
          /\ \A id \in Ids : InRange(Baseline(render_timeouts, id)))
    /\ [][\A r \in runs, render \in RenderInputs :
             (/\ render_js
              /\ render.goto = "loaded"
              /\ render.d < MAX_RENDER_SECONDS
              /\ run_check_detect(r, "absent", render))
                => /\ DOMAIN render_timeouts' = DOMAIN render_timeouts \cup {r.id}
                   /\ IsClamped13(render_timeouts'[r.id], render.d)
                   /\ render.d = 150 => render_timeouts'[r.id] = 180
                   /\ Baseline(render_timeouts', r.id) = render_timeouts'[r.id]
                   /\ \A id \in DOMAIN render_timeouts \ {r.id} :
                         render_timeouts'[id] = render_timeouts[id]]_vars

\* Two checks of a target rendered its page, and the timeout learned from a
\* load of 100 seconds is stored.
C15_witness ==
    \E l1, l2 \in logs :
        /\ l1.watcher_id = l2.watcher_id
        /\ l1.checked_at < l2.checked_at
        /\ l1.status = "not_found"
        /\ l2.status = "not_found"
        /\ render_timeouts[l1.watcher_id] = 130

\* C16: a render that loads below the ceiling waits, after the load, at
\* least render_post_wait_seconds, whatever the load duration and the
\* baseline timeout.
C16_minimum_wait ==
    [][\A r \in runs, render \in RenderInputs :
          (/\ render_js
           /\ render.goto = "loaded"
           /\ render.d < MAX_RENDER_SECONDS
           /\ run_check_detect(r, "absent", render))
             => fetch_html_js(render, Baseline(render_timeouts, r.id)).wait
                   >= render_post_wait_seconds]_vars

(***************************************************************************)
(* Properties of monitor_url.                                              *)
(***************************************************************************)
\* The steps of kind k among the attempts made so far.
StepsOf(k) == {i \in 1..Len(monitor.steps) : monitor.steps[i] = k}

\* C17: with ocr_enabled and wayback_enabled off, a call of monitor_url in
\* which no attempt raised and no stage matched returns not_found after
\* exactly max_retries + 1 attempts, and has called neither the OCR nor the
\* archive service.
C17_not_found ==
    (/\ monitor.pc = "returned"
     /\ ~monitor.resilience.ocr_enabled
     /\ ~monitor.resilience.wayback_enabled
     /\ StepsOf("error") = {}
     /\ StepsOf("found") = {})
        => /\ monitor.attempt = monitor.resilience.max_retries + 1
           /\ Len(monitor.steps) = monitor.resilience.max_retries + 1
           /\ monitor.final_status = "not_found"
           /\ monitor.ocr_calls = 0
           /\ monitor.wayback_calls = 0

\* Such a call has returned not_found after three attempts, one of them
\* followed by a size-triggered retry.
C17_witness ==
    /\ monitor.pc = "returned"
    /\ ~monitor.resilience.ocr_enabled
    /\ ~monitor.resilience.wayback_enabled
    /\ monitor.resilience.max_retries = 2
    /\ monitor.steps = <<"no_match", "size_retry", "no_match">>
    /\ monitor.final_status = "not_found"

\* C18: monitor_url returns the failed outcome only when the whole budget of
\* max_retries + 1 attempts has been used.
C18_error_after_budget ==
    monitor.final_status = "failed"
        => monitor.attempt = monitor.resilience.max_retries + 1

\* The delay the exponential strategy prescribes after attempt k.
ExponentialDelay(resilience, k) ==
    Min(resilience.backoff_base * 2^(k - 1), resilience.backoff_max)

\* C19: under a configuration whose retry_strategy is
\* RetryStrategy.EXPONENTIAL_BACKOFF, calculate_exponential_backoff(k) is
\* min(backoff_base * 2^(k-1), backoff_max) for every attempt k of the budget,
\* is non-decreasing in k and reaches backoff_max.
C19_exponential_backoff ==
    LET resilience == monitor.resilience
        f(k) == calculate_exponential_backoff(resilience, k)
        K == 1..(MaxRetries + 3)
    IN resilience.retry_strategy = RetryStrategy("exponential_backoff")
        => /\ \A k \in K : f(k) = ExponentialDelay(resilience, k)
           /\ \A k \in K : k + 1 \in K => f(k) <= f(k + 1)
           /\ \E k \in K : f(k) = resilience.backoff_max

\* C20: under the exponential strategy, an attempt k <= max_retries that ends
\* without a match, an exception or a size-triggered retry is followed by a
\* sleep of min(backoff_base * 2^(k-1), backoff_max) before attempt k + 1.
C20_backoff_wait ==
    [][\A inp \in AttemptInputs :
         (/\ monitor_attempt(inp)
          /\ monitor.resilience.retry_strategy = RetryStrategy("exponential_backoff")
          /\ monitor'.steps = Append(monitor.steps, "no_match")
          /\ monitor'.attempt <= monitor.resilience.max_retries)
            => monitor'.sleeps =
                 Append(monitor.sleeps,
                        <<monitor'.attempt,
                          ExponentialDelay(monitor.resilience, monitor'.attempt)>>)]_vars

(***************************************************************************)
(* Properties of the detection chain.                                      *)
(***************************************************************************)
\* The stage at position k of the chain.
Stages == <<"substring", "fuzzy", "ocr", "wayback">>

\* The stages invoked by the attempt that has just ended.
Invoked(m) == {m.calls[i] : i \in DOMAIN m.calls}

\* C21: when the phrase occurs in the content of the page, in the same or in
\* another case, the attempt reports the match and has invoked the substring
\* stage alone, under every setting of the three switches.
C21_substring_first ==
    [][\A inp \in DetectionInputs :
         (/\ monitor_attempt(inp)
          /\ ~inp.raises
          /\ monitor.target_phrase = Phrase
          /\ inp.content \in {ExactText, Phrase})
            => /\ monitor'.calls = <<"substring">>
               /\ monitor'.final_status = "success"
               /\ monitor'.ocr_calls = monitor.ocr_calls
               /\ monitor'.wayback_calls = monitor.wayback_calls]_vars

\* The attempt of a monitor with every stage switched on has matched at the
\* substring stage.
C21_witness ==
    /\ monitor.resilience.fuzzy_match_enabled
    /\ monitor.resilience.ocr_enabled
    /\ monitor.resilience.wayback_enabled
    /\ monitor.pc = "returned"
    /\ monitor.final_status = "success"
    /\ monitor.calls = <<"substring">>

\* The switch of a stage; the substring stage has none.
StageEnabled(resilience, stage) ==
    CASE stage = "substring" -> TRUE
      [] stage = "fuzzy" -> resilience.fuzzy_match_enabled
      [] stage = "ocr" -> resilience.ocr_enabled
      [] stage = "wayback" -> resilience.wayback_enabled

\* What a stage answers when it is invoked on the attempt inp.
StageMatches(resilience, target_phrase, stage, inp) ==
    CASE stage = "substring" -> Occurs(target_phrase, inp.content)
      [] stage = "fuzzy" ->
            ~inp.fuzzy_raises /\ fuzzy_match_content(resilience, inp.content, target_phrase)
      [] stage = "ocr" -> ~inp.ocr.raises /\ Occurs(target_phrase, inp.ocr.text)
      [] stage = "wayback" -> ~inp.wayback.raises /\ Occurs(target_phrase, inp.wayback.text)

\* C22: the stages an attempt invokes are in the order substring, fuzzy, OCR,
\* archive; each invoked stage is enabled and follows only stages that did
\* not match; and the attempt reports a match exactly when an invoked stage
\* matched.
C22_ordered_chain ==
    [][\A inp \in DetectionInputs :
         (monitor_attempt(inp) /\ ~inp.raises)
            => LET calls == monitor'.calls
                   Matches(stage) ==
                       StageMatches(monitor.resilience, monitor.target_phrase, stage, inp)
               IN /\ \E ks \in SUBSET (1..4) :
                        /\ Len(calls) = Cardinality(ks)
                        /\ \A i \in 1..Len(calls) :
                              /\ \E k \in ks : calls[i] = Stages[k]
                                    /\ Cardinality({j \in ks : j < k}) = i - 1
                  /\ calls[1] = "substring"
                  /\ \A i \in 1..Len(calls) :
                        /\ StageEnabled(monitor.resilience, calls[i])
                        /\ \A j \in 1..(i - 1) : ~Matches(calls[j])
                  /\ (monitor'.final_status = "success")
                        <=> \E i \in 1..Len(calls) : Matches(calls[i])]_vars

\* An attempt has invoked all four stages and the last of them matched.
C22_witness ==
    /\ monitor.pc = "returned"
    /\ monitor.calls = Stages
    /\ monitor.final_status = "success"

\* C23: an exception inside the fuzzy, the OCR or the archive stage is no
\* match of that stage and nothing more: the attempt records no error step
\* and does not fail, every later stage that is enabled is still invoked
\* unless a stage before it matched, and a match is reported exactly when a
\* stage that did not raise matched.
C23_stage_errors ==
    [][\A inp \in DetectionInputs :
         (/\ monitor_attempt(inp)
          /\ ~inp.raises
          /\ monitor'.warnings # {})
            => LET Matches(k) ==
                       /\ Stages[k] \in Invoked(monitor')
                       /\ StageMatches(monitor.resilience, monitor.target_phrase,
                                       Stages[k], inp)
               IN /\ monitor'.steps[Len(monitor'.steps)] \in {"found", "no_match"}
                  /\ monitor'.final_status # "failed"
                  /\ \A k \in 2..4 :
                        (/\ StageEnabled(monitor.resilience, Stages[k])
                         /\ \A j \in 1..(k - 1) : ~Matches(j))
                            => Stages[k] \in Invoked(monitor')
                  /\ (monitor'.final_status = "success") <=> \E k \in 1..4 : Matches(k)]_vars

\* The OCR stage raised in an attempt, and the archive lookup that followed
\* it found the phrase.
C23_witness ==
    /\ monitor.pc = "returned"
    /\ "ocr" \in monitor.warnings
    /\ monitor.calls = Stages
    /\ monitor.final_status = "success"

\* C24: the fuzzy stage matches exactly when it is enabled and a word of the
\* content and a word of the phrase, compared without regard to case, have
\* 100 * (1 - distance / max length) at or above the threshold; "color"
\* against "colour" matches at threshold 80 and does not at 85.
C24_fuzzy_match ==
    /\ [](\A r \in FuzzyConfigs :
             r.fuzzy_match_enabled
                => (fuzzy_match_content(r, color, colour) <=> r.fuzzy_match_threshold = 80))
    /\ [][\A inp \in FuzzyInputs :
             (/\ monitor_attempt(inp)
              /\ ~inp.raises
              /\ ~Occurs(monitor.target_phrase, inp.content))
                => LET words == split(inp.content)
                       target_words == split(monitor.target_phrase)
                       threshold == monitor.resilience.fuzzy_match_threshold
                   IN (monitor'.final_status = "success")
                         <=> /\ monitor.resilience.fuzzy_match_enabled
                             /\ \E i \in DOMAIN words, j \in DOMAIN target_words :
                                   LET max_len == Max(Len(words[i]), Len(target_words[j]))
                                       d == distance(lower(words[i]), lower(target_words[j]))
                                   IN /\ max_len > 0
                                      /\ 100 * (max_len - d) >= threshold * max_len]_vars

\* The check for "colour" has matched at the fuzzy stage at threshold 80.
C24_witness ==
    /\ monitor.pc = "returned"
    /\ monitor.target_phrase = colour
    /\ monitor.resilience.fuzzy_match_threshold = 80
    /\ monitor.calls = <<"substring", "fuzzy">>
    /\ monitor.final_status = "success"

(***************************************************************************)
(* Properties of the attempt loop of monitor_url, continued.               *)
(***************************************************************************)
\* The attempt that ends in this step met inp and its chain matched.
Matched(inp) ==
    /\ monitor_attempt(inp)
    /\ ~inp.raises
    /\ Detection(monitor.resilience, monitor.target_phrase, inp).found

\* What a match does to the call: it returns the found outcome at once,
\* metrics['attempts'] is the number of the attempt, no wait is made, and
\* nothing of the call can run after it.
EndsCheck ==
    /\ monitor'.pc = "returned"
    /\ monitor'.final_status = "success"
    /\ monitor'.attempt = monitor.attempt
    /\ monitor'.attempt = Len(monitor'.steps)
    /\ StepsOf("found") = {}
    /\ monitor'.sleeps = monitor.sleeps

C26_browsers_closed ==
    /\ [](/\ monitor.browsers \in {0, 1}
          /\ monitor.browsers = 1 <=> monitor.pc = "attempt")
    /\ [][\A launched \in BOOLEAN :
             attempt_start(launched)
                => /\ monitor.browsers = 0
                   /\ monitor'.browsers = IF launched THEN 1 ELSE 0]_vars
    /\ [][\A r \in runs, fetch \in {"absent", "found"}, render \in RenderInputs :
             run_check_detect(r, fetch, render)
                => fetch_html_js(render, Baseline(render_timeouts, r.id)).browsers = 0]_vars

\* A call of monitor_url has returned after an attempt that found nothing
\* and one that raised, an execution of run_check has met the heavy abort,
\* and no browser is open.
C26_witness ==
    /\ monitor.pc = "returned"
    /\ monitor.steps = <<"no_match", "error">>
    /\ monitor.browsers = 0
    /\ \E r \in runs : r.status = "heavy"

\* The rows of the table cookies that belong to a domain.
RowsOf(db, domain) == {c \in db.cookies : c.domain = domain}

\* A save of a cookie list for a domain, by the check that is running or by
\* another check on the same file.
Saves(domain, cookies) ==
    \/ concurrent_save(domain, cookies)
    \/ /\ monitor.domain = domain
       /\ \E inp \in SessionInputs :
             /\ ~inp.raises
             /\ inp.cookies = cookies
             /\ monitor_attempt(inp)

\* C29: the cookie store holds at most one cookie set per domain whatever
\* the interleaving of the saves of concurrent checks, and a read returns
\* the list of that set; a save replaces the whole set of its domain with
\* the list saved, which a read that follows returns, and leaves the sets of
\* the other domains as they were; no step other than a save changes a
\* stored set.
C29_last_writer_wins ==
    /\ [](\A domain \in Domains :
             /\ Cardinality(RowsOf(cookie_db, domain)) <= 1
             /\ \A row \in RowsOf(cookie_db, domain) :
                   get_cookies_for_domain(cookie_db, domain, time) = loads(row.cookies))
    /\ [][\A domain \in Domains, cookies \in CookieLists \ {<<>>} :
             Saves(domain, cookies)
                => /\ RowsOf(cookie_db', domain) = {CookieRow(domain, cookies, time)}
                   /\ get_cookies_for_domain(cookie_db', domain, time') = cookies
                   /\ \A other \in Domains \ {domain} :
                         RowsOf(cookie_db', other) = RowsOf(cookie_db, other)]_vars
    /\ [][cookie_db'.cookies # cookie_db.cookies
             => \E domain \in Domains, cookies \in CookieLists \ {<<>>} :
                   Saves(domain, cookies)]_vars

\* A check of a.example that loaded the list c1 has returned after saving
\* c2 an hour or more after the start, while the store holds a list for
\* b.example that another check saved earlier.
C29_witness ==
    /\ monitor.pc = "returned"
    /\ monitor.domain = "a.example"
    /\ monitor.stored_cookies = <<"c1">>
    /\ time.elapsed >= 1
    /\ RowsOf(cookie_db, "a.example") = {CookieRow("a.example", <<"c2">>, time)}
    /\ \E row \in RowsOf(cookie_db, "b.example") :
          /\ loads(row.cookies) = <<"c1">>
          /\ row.expires # CookieRow("b.example", <<"c1">>, time).expires

\* The session rows of a domain, the hour (UTC) at which a row was
\* inserted, and the rows of a domain whose time to live has not run out.
SessionsOf(db, domain) == {s \in db.sessions : s.domain = domain}
CreatedAt(s) == 24 * s.created_at[1] + s.created_at[3]
Unexpired(db, domain, tm) ==
    {s \in SessionsOf(db, domain) : tm.utc < CreatedAt(s) + session_ttl_hours}

\* C27: a check of a domain that starts after the previous check of the
\* same domain has returned, and before the session record of that check
\* expires, uses the session id of that check, and the number of session
\* records of the domain does not grow; a check inserts a session record
\* only when the domain has no unexpired record.
C27_session_reuse ==
    [][\A domain \in Domains :
          monitor_url(domain, Phrase)
             => /\ (/\ monitor.pc = "returned"
                    /\ monitor.domain = domain
                    /\ \E s \in Unexpired(cookie_db, domain, time) :
                          s.session_id = monitor.session_id)
                      => /\ monitor'.session_id = monitor.session_id
                         /\ Cardinality(SessionsOf(cookie_db', domain))
                               <= Cardinality(SessionsOf(cookie_db, domain))
                /\ cookie_db'.sessions \ cookie_db.sessions # {}
                      => Unexpired(cookie_db, domain, time) = {}]_vars

\* The hour (UTC) that the expiry column of a row denotes, written as it
\* is in the local time of the process; and whether it is in the future.
ExpiryHour(text, tm) == 24 * text[1] + text[3] - tm.offset
InFuture(text, tm) == tm.utc < ExpiryHour(text, tm)

\* C28: every check sweeps before it looks up a session or loads cookies:
\* when monitor_url has started, the rows that were in the tables and whose
\* expiry was not in the future are gone and the other rows are as they
\* were, the session the check uses and the cookies it loaded come from
\* rows whose expiry is in the future; and at no time does
\* get_active_session or get_cookies_for_domain return an expired row.
C28_sweep_before_lookup ==
    /\ [][\A domain \in Domains :
             monitor_url(domain, Phrase)
                => /\ cookie_db'.sessions \cap cookie_db.sessions
                         = {s \in cookie_db.sessions : InFuture(s.expires_at, time)}
                   /\ cookie_db'.cookies
                         = {c \in cookie_db.cookies : InFuture(c.expires, time)}
                   /\ \E s \in SessionsOf(cookie_db', domain) :
                         /\ s.session_id = monitor'.session_id
                         /\ InFuture(s.expires_at, time)
                   /\ monitor'.stored_cookies # <<>>
                         => \E c \in RowsOf(cookie_db', domain) :
                               /\ loads(c.cookies) = monitor'.stored_cookies
                               /\ InFuture(c.expires, time)]_vars
    /\ [](\A domain \in Domains :
             /\ \A s \in ActiveSessions(cookie_db, domain, time) :
                   InFuture(s.expires_at, time)
             /\ get_cookies_for_domain(cookie_db, domain, time) # <<>>
                   => \A c \in RowsOf(cookie_db, domain) : InFuture(c.expires, time))

\* A request or a handler that ends in remove_job(id) and does nothing else
\* to the scheduler: the deletion of a target and the switch that disables
\* one.
Removes(id) ==
    \/ delete_watcher(id)
    \/ toggle_watcher(id) /\ ~watchers'[id].enabled

\* C30: remove_job(id) completes also when the job store holds no job of
\* id, and then leaves the store as it is; it removes the interval job of
\* id and no other job; applied twice it gives what it gives applied once;
\* the executions already submitted, manual ones included, the markers of
\* manual checks in flight and the learned timeouts are as they were.
C30_remove_job ==
    /\ [](\A id \in Ids :
             /\ remove_job(jobs, id) = {j \in jobs : j.watcher_id # id}
             /\ JobsOf(id) = {} => remove_job(jobs, id) = jobs
             /\ remove_job(remove_job(jobs, id), id) = remove_job(jobs, id))
    /\ [][\A id \in Ids :
             Removes(id)
                => /\ jobs' = {j \in jobs : j.watcher_id # id}
                   /\ queue' = queue
                   /\ runs' = runs
                   /\ manual_checks_in_progress' = manual_checks_in_progress
                   /\ render_timeouts' = render_timeouts]_vars

\* A target has been deleted while a manual check of it was waiting in the
\* pool: its interval job is gone, the manual execution and its marker are
\* there, the other target has its job and a timeout has been learned.
C30_witness ==
    /\ started
    /\ \E id \in Ids :
          /\ id \notin DOMAIN watchers
          /\ JobsOf(id) = {}
          /\ queue[TRUE][id] > 0
          /\ id \in manual_checks_in_progress
          /\ \E other \in Ids \ {id} : JobsOf(other) # {}
    /\ render_timeouts # EmptyMap

\* C31: an attempt of monitor_url whose navigation exceeds the ceiling
\* timeout ends the whole check with the heavy classification: the call
\* returns, no further attempt is started, and the attempt is not recorded
\* as an error.
C31_heavy_ends_check ==
    [][\A inp \in NavigationInputs :
          inp.goto = "timeout" /\ monitor_attempt(inp)
             => /\ monitor'.pc = "returned"
                /\ monitor'.final_status = "heavy"
                /\ monitor'.steps = monitor.steps]_vars

\* An attempt that ended without a match and without an exception.
NoMatch(inp) ==
    /\ ~inp.raises
    /\ ~Detection(monitor.resilience, monitor.target_phrase, inp).found

\* The content of the attempt is shorter than size_threshold_percentage
\* times the content of the attempt before it.
BelowThreshold(inp) ==
    /\ monitor.last_content # <<>>
    /\ 100 * Len(inp.content) < size_threshold_percentage * Len(monitor.last_content)

\* C32: an attempt of monitor_url without a match is followed by a
\* size-triggered retry exactly when its content is shorter than
\* size_threshold_percentage times the content of the previous attempt; the
\* retry is preceded by no backoff wait, leaves the count of attempts as it
\* is, so that the next attempt is one of the max_retries + 1 of the check,
\* and never follows the first attempt of a check.
C32_size_retry ==
    /\ [](/\ monitor.attempt <= monitor.resilience.max_retries + 1
          /\ monitor.steps # <<>> => monitor.steps[1] # "size_retry")
    /\ [][\A inp \in AttemptInputs :
             monitor_attempt(inp) /\ NoMatch(inp)
                => /\ BelowThreshold(inp)
                         <=> monitor'.steps = Append(monitor.steps, "size_retry")
                   /\ BelowThreshold(inp)
                         => /\ monitor.attempt > 1
                            /\ monitor'.sleeps = monitor.sleeps
                            /\ monitor'.attempt = monitor.attempt
                            /\ monitor'.pc = "loop"
                            /\ monitor'.last_content = inp.content]_vars

\* A check of three attempts has ended: the first found nothing, the
\* second came back much shorter and was retried, the third found nothing.
C32_witness ==
    /\ monitor.pc = "returned"
    /\ monitor.resilience.max_retries = 2
    /\ monitor.steps = <<"no_match", "size_retry", "no_match">>
    /\ monitor.attempt = 3
    /\ monitor.final_status = "not_found"

\* C33: the scroll loop of perform_smart_interactions declares the height
\* stable only when the count of consecutive unchanged polls has reached
\* required_stable_checks; every unchanged poll adds one to the count and,
\* short of that number, is followed by a shake of the page; a poll that
\* reads another height sets the count to zero; every poll is one more
\* iteration of at most max_scrolls, and the loop ends.
C33_scroll_loop ==
    /\ [](/\ scroll.stable
                => /\ scroll.consecutive_stable_checks = required_stable_checks
                   /\ scroll.pc = "done"
          /\ ~scroll.stable => scroll.consecutive_stable_checks < required_stable_checks
          /\ scroll.i <= max_scrolls)
    /\ [][\A new_height \in Heights(scroll.last_height) :
             poll(new_height)
                => /\ scroll'.i = scroll.i + 1
                   /\ new_height = scroll.last_height
                         => /\ scroll'.consecutive_stable_checks
                                  = scroll.consecutive_stable_checks + 1
                            /\ scroll'.shakes =
                                  IF scroll'.consecutive_stable_checks < required_stable_checks
                                  THEN scroll.shakes + 1 ELSE scroll.shakes
                   /\ new_height # scroll.last_height
                         => /\ scroll'.consecutive_stable_checks = 0
                            /\ scroll'.last_height = new_height
                            /\ scroll'.shakes = scroll.shakes]_vars
    /\ (scroll.pc = "scrolling" ~> scroll.pc = "done")

\* The loop has ended on a stable height after six polls: two unchanged,
\* one greater, three unchanged; the page was shaken four times.
C33_witness ==
    /\ scroll.pc = "done"
    /\ scroll.stable
    /\ scroll.i = 6
    /\ scroll.shakes = 4
    /\ scroll.last_height = 3

\* C34: the scroll loop of perform_smart_interactions has at no time
\* performed more iterations than rendering.max_scrolls.
C34_max_scrolls == scroll.i <= scroll.rendering.max_scrolls

max_sessions_per_domain == 5

\* C35: at any time, also while checks of a domain run at the same time,
\* a domain has at most one unexpired session record and at most
\* max_sessions_per_domain records; a step inserts a session record for a
\* domain only when the domain has no unexpired record.
C35_one_session_per_domain ==
    /\ [](\A domain \in Domains :
             /\ Cardinality(Unexpired(cookie_db, domain, time)) <= 1
             /\ Cardinality(SessionsOf(cookie_db, domain)) <= max_sessions_per_domain)
    /\ [][\A domain \in Domains :
             SessionsOf(cookie_db', domain) \ SessionsOf(cookie_db, domain) # {}
                => Unexpired(cookie_db, domain, time) = {}]_vars

\* C36: whenever a target id is in manual_checks_in_progress, a manual
\* one-off execution of that target is waiting in the pool or running.
C36_marker_has_job ==
    \A id \in manual_checks_in_progress : ManualExecutions(id) > 0

\* The attempts of the call that have ended: each one left one step.
Ended(m) == IF m.pc = "attempt" THEN m.attempt - 1 ELSE m.attempt

\* C37: a call of monitor_url returns, after max_retries + 1 attempts at
\* most, whatever each attempt meets; it returns with exactly one of the
\* outcomes success, not_found and failed; the count of attempts is the
\* number of attempts started; and success is the outcome only of a call
\* whose last attempt matched in a detection stage.
C37_terminates ==
    /\ [](/\ monitor.attempt <= monitor.resilience.max_retries + 1
          /\ Len(monitor.steps) = Ended(monitor)
          /\ monitor.pc = "returned"
                <=> monitor.final_status \in {"success", "not_found", "failed"}
          /\ monitor.final_status = "success"
                <=> (monitor.steps # <<>> /\ monitor.steps[Len(monitor.steps)] = "found")
          /\ \A i \in 1..(Len(monitor.steps) - 1) : monitor.steps[i] # "found")
    /\ [][monitor'.final_status = "success" /\ monitor.final_status # "success"
             => \E inp \in AttemptInputs :
                   /\ monitor_attempt(inp)
                   /\ ~inp.raises
                   /\ Detection(monitor.resilience, monitor.target_phrase, inp).found]_vars
    /\ [][\A launched \in BOOLEAN :
             attempt_start(launched) => monitor'.attempt = monitor.attempt + 1]_vars
    /\ (monitor.pc \in {"loop", "attempt"} ~> monitor.pc = "returned")

\* A call with max_retries = 2 has returned failed after three attempts:
\* no match, a size-triggered retry, an exception.
C37_witness ==
    /\ monitor.pc = "returned"
    /\ monitor.resilience.max_retries = 2
    /\ monitor.attempt = 3
    /\ monitor.steps = <<"no_match", "size_retry", "error">>
    /\ monitor.final_status = "failed"

\* C38: _detect returns, whatever the fetch and the render give, one of the
\* statuses found, not_found, error and heavy, with an error message
\* exactly when the status is error or heavy; hence, when an execution of
\* run_check has committed its check, last_status of the target is not
\* unknown.
C38_status_known ==
    /\ [][\A r \in runs, fetch \in FetchInputs, render \in RenderInputs :
             run_check_detect(r, fetch, render)
                => LET res == _detect(r.id, render_js, render_timeouts, fetch, render)
                   IN /\ res.status \in {"found", "not_found", "error", "heavy"}
                      /\ res.error # None <=> res.status \in {"error", "heavy"}]_vars
    /\ [][\A r \in runs :
             (run_check_commit(r, "ok") /\ r.id \in DOMAIN watchers')
                => watchers'[r.id].last_status # "unknown"]_vars

\* C39: _detect calls fetch_html_js, and with it launches a browser, exactly
\* when the plain fetch returned a page without the phrase and render_js is
\* on; a phrase in the fetched page gives found and a failing fetch gives
\* error, both without a browser, also when render_js is on.
C39_render_after_fetch ==
    [][\A r \in runs, fetch \in FetchInputs, render \in RenderInputs :
          run_check_detect(r, fetch, render)
             => \E c \in runs' :
                   /\ c.id = r.id /\ c.pc = "commit"
                   /\ c.rendered <=> (fetch = "absent" /\ render_js)
                   /\ fetch = "found" => c.status = "found" /\ c.error = None
                   /\ fetch = "raise" => c.status = "error" /\ c.error # None]_vars

\* With render_js on, the execution of one target has found the phrase in
\* the fetched page and that of another target has failed in the fetch:
\* neither launched a browser.
C39_witness ==
    /\ render_js
    /\ \E r \in runs : r.pc = "commit" /\ r.status = "found" /\ ~r.rendered
    /\ \E r \in runs : r.pc = "commit" /\ r.status = "error" /\ ~r.rendered

\* The render of an execution completed: fetch_html_js returned a page.
Completed(c) == c.rendered /\ c.status \in {"found", "not_found"}

\* C40: an execution of run_check changes render_timeouts only when its JS
\* render completed, and then only the entry of its own target: checks
\* that end as heavy or as error, that find the phrase in the fetched page
\* or that are skipped leave the map as it is, and no other step of the
\* program changes it.
C40_learned_timeout_frame ==
    /\ [][\A r \in runs, fetch \in FetchInputs, render \in RenderInputs :
             run_check_detect(r, fetch, render)
                => \E c \in runs' :
                      /\ c.id = r.id /\ c.pc = "commit"
                      /\ ~Completed(c) => render_timeouts' = render_timeouts
                      /\ DOMAIN render_timeouts' \subseteq DOMAIN render_timeouts \cup {r.id}
                      /\ \A id \in DOMAIN render_timeouts \ {r.id} :
                            /\ id \in DOMAIN render_timeouts'
                            /\ render_timeouts'[id] = render_timeouts[id]]_vars
    /\ [][render_timeouts' # render_timeouts
             => \E r \in runs, fetch \in FetchInputs, render \in RenderInputs :
                   run_check_detect(r, fetch, render)]_vars

\* Target 1 has a learned timeout; the execution of target 2 has ended as
\* heavy and another execution was skipped or ended, and target 2 has no
\* learned timeout.
C40_witness ==
    /\ 1 \in DOMAIN render_timeouts
    /\ 2 \notin DOMAIN render_timeouts
    /\ \E r \in runs : r.id = 2 /\ r.pc = "commit" /\ r.status = "heavy"

====
